---- MODULE Spec2Model ----
(***************************************************************************)
(* Verification model of the exchange data acquisition core of             *)
(* nse-bse-api: the request throttle, the session manager's retry policy,  *)
(* the date-range chunker, and the date-accepting endpoint modules.        *)
(*                                                                         *)
(* Time is the millisecond clock read by Date.now(); a timer set by        *)
(* setTimeout fires at its due time or later, never earlier.  Dates are    *)
(* instants, OneDay of them per day, so that two dates can differ by a     *)
(* fraction of a day, as JavaScript Date values do.                        *)
(***************************************************************************)
EXTENDS Integers, Sequences, FiniteSets, TLC

(***************************************************************************)
(* Bounds of the model.                                                    *)
(***************************************************************************)
NumTasks == 2
MaxChecks == 2
StartTime == 1000
MaxElapsed == 260
MaxRequests == 2
OneDay == 2
MaxInstant == 9
MaxChunkDays == 3
MaxRows == 2

MaxTime == StartTime + MaxElapsed
Tasks == 1..NumTasks
\* amounts by which the millisecond clock may advance in one step
TickSteps == {40, 125}
\* the instants handed to splitDateRange, OneDay of them per day
Instants == 0..MaxInstant

VARIABLES
  now,                 \* Date.now(), in ms
  lastDefaultRequest,  \* throttle.ts: module-level timestamp, class default
  lastLookupRequest,   \* throttle.ts: module-level timestamp, class lookup
  callers,             \* the logical tasks that exist in this run
  pc,                  \* per task: position inside Throttle.check
  type,                \* per task: the class argument of its current check
  wakeAt,              \* per task: instant at which its setTimeout is due
  ticket,              \* per task: call-order number of its current check
  nextTicket,          \* number of check() invocations so far, plus one
  done,                \* per task: number of checks it has completed
  prevGrantAt,         \* per class: completion time of the last check but one
  lastTicket           \* per class: call-order number of the last completed check

throttleVars == <<now, lastDefaultRequest, lastLookupRequest, callers, pc,
                  type, wakeAt, ticket, nextTicket, done, prevGrantAt,
                  lastTicket>>

VARIABLES
  phase,      \* per task: step of request(): none, prime0, attempt, prime, replay
  url,        \* per task: the URL of its request
  inflight,   \* per task: an outbound call has been issued and not answered
  result,     \* per task: pending, ok or error
  status,     \* per task: HTTP status of the last response it received
  attempts,   \* per task: outbound calls made for the original request
  reprimes,   \* per task: priming calls made after a 401
  sent,       \* per task: outbound calls issued, priming calls included
  requests,   \* per task: calls of request() that have returned or thrown
  primed      \* the cookie jar holds the anti-bot cookies

sessionVars == <<phase, url, inflight, result, status, attempts, reprimes,
                 sent, requests, primed>>

VARIABLES
  from, to, chunkDays,  \* arguments of splitDateRange
  chunks,               \* its result, a sequence of <<start, end>> pairs
  splitState            \* input, returned or thrown

splitVars == <<from, to, chunkDays, chunks, splitState>>

VARIABLES
  endpoint,    \* the endpoint method that was called
  from_date,   \* its from_date argument, NoDate when omitted
  to_date,     \* its to_date argument, NoDate when omitted
  opts,        \* its other arguments
  idx,         \* position of the chunk loop: the chunk being fetched
  results,     \* rows accumulated so far (`results`, `data`, `result.price`)
  turnover,    \* `result.turnover` of fetchHistoricalIndexData
  apiState,    \* idle, awaiting (a request is in flight), returned, thrown
  error,       \* the error thrown, "" when none
  requestLog,  \* the queries handed to httpClient.request, in order
  failedChunk, \* the chunk whose request failed, 0 when none
  received,    \* the number of rows of each response received, in order
  returned     \* the value returned to the caller

apiVars == <<endpoint, from_date, to_date, opts, idx, results, turnover,
             apiState, error, requestLog, failedChunk, received, returned>>

VARIABLES
  schema,      \* the key under which the rows carry their expiry
  chain,       \* records.data of the option-chain payload, a sequence of rows
  underlying,  \* records.underlyingValue
  expiryDate,  \* the Date argument of calculateMaxPain / compileOptionChain
  expiry,      \* the expiry string argument, or the formatted expiryDate
  strikeRange, \* the strikeRange argument of getFilteredOptionChainV3
  chainOp,     \* the function that was applied, "" before
  maxpain,     \* the value returned by calculateMaxPain / calculateMaxPainV3
  oc,          \* the value returned by compileOptionChain(V3)
  filtered     \* the value returned by getFilteredOptionChainV3

chainVars == <<schema, chain, underlying, expiryDate, expiry, strikeRange,
               chainOp, maxpain, oc, filtered>>

VARIABLES
  optState,     \* idle, awaitingExpiries, awaitingChain, returned, thrown
  optCall,      \* getOptionChain or getOptionChainV3
  optExpiry,    \* the expiry the caller supplied, NoExpiry when none
  contractInfo, \* the body of the option-chain-contract-info response
  expiries,     \* the value getExpiryDatesV3 returned
  optLog,       \* the requests handed to httpClient.request, in order
  optError      \* the error thrown, "" when none

optVars == <<optState, optCall, optExpiry, contractInfo, expiries, optLog,
             optError>>

VARIABLES
  marketData,  \* data.data handed to getGainers / getLosers
  count,       \* their count argument, NoCount when omitted
  marketOp,    \* the function that was applied, "" before
  marketOut    \* the rows it returned

marketVars == <<marketData, count, marketOp, marketOut>>

VARIABLES
  parserResult, \* SymbolParser.result: the fields populated so far
  start,        \* SymbolParser.start
  index,        \* SymbolParser.index
  feeds,        \* number of feed calls made on this parser
  lastFeed,     \* the fragments of the last feed call, "" trimmed away
  before,       \* SymbolParser.result as it was before the last feed call
  got,          \* the value returned by getResult when it was the last call
  lastOp        \* the last method called on the parser, "" before any

parserVars == <<parserResult, start, index, feeds, lastFeed, before, got,
                lastOp>>

analyticsVars == <<chainVars, optVars, marketVars, parserVars>>

pureVars == <<splitVars, apiVars, analyticsVars>>

vars == <<throttleVars, sessionVars, pureVars>>

(***************************************************************************)
(* throttle.ts: configuration                                              *)
(***************************************************************************)
Classes == {"lookup", "default"}

\* Math.ceil(a / b) for positive integers
Ceil(a, b) == (a + b - 1) \div b

throttleConfig ==
  [ lookup  |-> [rps |-> 15, delay |-> Ceil(1000, 15)],
    default |-> [rps |-> 8,  delay |-> Ceil(1000, 8)] ]

\* the timestamp a check of class c reads and writes
LastRequest(c) == IF c = "lookup" THEN lastLookupRequest ELSE lastDefaultRequest

\* the interval derived with floor instead of ceil
WaitTimeFloor(c) == (1000 \div throttleConfig[c].rps) - (now - LastRequest(c))

\* config.delay - (now - last), computed at entry of check
WaitTime(c) == throttleConfig[c].delay - (now - LastRequest(c))

\* both timestamps are written, whatever the class
SetLastBoth(c, at) ==
  /\ lastLookupRequest' = at
  /\ lastDefaultRequest' = at

\* `lastXRequest = Date.now()` at the end of a check of class c
SetLast(c, at) ==
  /\ lastLookupRequest' = IF c = "lookup" THEN at ELSE lastLookupRequest
  /\ lastDefaultRequest' = IF c = "lookup" THEN lastDefaultRequest ELSE at

\* the check of task t, class c, invoked as call number tk, completes at `at`
Complete(t, c, tk, at) ==
  /\ SetLast(c, at)
  /\ done' = [done EXCEPT ![t] = @ + 1]
  /\ prevGrantAt' = [prevGrantAt EXCEPT ![c] = IF lastTicket[c] = 0 THEN -1
                                                ELSE LastRequest(c)]
  /\ lastTicket' = [lastTicket EXCEPT ![c] = tk]

(***************************************************************************)
(* Throttle.check(type), entry with waitTime <= 0: the async function runs *)
(* to its end without suspending; the second Date.now() may already read   *)
(* the next millisecond.                                                   *)
(***************************************************************************)
CheckNoWait(t, c) ==
  /\ t \in callers
  /\ pc[t] = "idle"
  /\ WaitTime(c) <= 0
  /\ \E d \in {0, 1} :
       /\ now + d <= MaxTime
       /\ now' = now + d
       /\ Complete(t, c, nextTicket, now + d)
  /\ type' = [type EXCEPT ![t] = c]
  /\ ticket' = [ticket EXCEPT ![t] = nextTicket]
  /\ nextTicket' = nextTicket + 1
  /\ wakeAt' = [wakeAt EXCEPT ![t] = 0]
  /\ UNCHANGED <<callers, pc>>

(***************************************************************************)
(* Throttle.check(type), entry with waitTime > 0: the task suspends on     *)
(* delay(waitTime), a setTimeout due waitTime ms from now.                 *)
(***************************************************************************)
CheckWait(t, c) ==
  /\ t \in callers
  /\ pc[t] = "idle"
  /\ WaitTime(c) > 0
  /\ pc' = [pc EXCEPT ![t] = "waiting"]
  /\ type' = [type EXCEPT ![t] = c]
  /\ wakeAt' = [wakeAt EXCEPT ![t] = now + WaitTime(c)]
  /\ ticket' = [ticket EXCEPT ![t] = nextTicket]
  /\ nextTicket' = nextTicket + 1
  /\ UNCHANGED <<now, lastDefaultRequest, lastLookupRequest, callers, done,
                 prevGrantAt, lastTicket>>

(***************************************************************************)
(* The timer of a suspended check fires (at its due time or later) and the *)
(* check records `lastXRequest = Date.now()` and completes.                *)
(***************************************************************************)
Wake(t) ==
  /\ t \in callers
  /\ pc[t] = "waiting"
  /\ now >= wakeAt[t]
  /\ Complete(t, type[t], ticket[t], now)
  /\ pc' = [pc EXCEPT ![t] = "idle"]
  /\ UNCHANGED <<now, callers, type, wakeAt, ticket, nextTicket>>

\* the millisecond clock advances by d while no task runs
Tick(d) ==
  /\ now + d <= MaxTime
  /\ now' = now + d
  /\ UNCHANGED <<lastDefaultRequest, lastLookupRequest, callers, pc, type,
                 wakeAt, ticket, nextTicket, done, prevGrantAt, lastTicket>>

\* the clock reaches the instant at which the timer of task t is due
TickToDue(t) ==
  /\ t \in callers
  /\ pc[t] = "waiting"
  /\ wakeAt[t] > now
  /\ wakeAt[t] <= MaxTime
  /\ now' = wakeAt[t]
  /\ UNCHANGED <<lastDefaultRequest, lastLookupRequest, callers, pc, type,
                 wakeAt, ticket, nextTicket, done, prevGrantAt, lastTicket>>

ThrottleInit(cs) ==
  /\ now = StartTime
  /\ lastDefaultRequest = 0
  /\ lastLookupRequest = 0
  /\ callers = cs
  /\ pc = [t \in Tasks |-> "idle"]
  /\ type = [t \in Tasks |-> "default"]
  /\ wakeAt = [t \in Tasks |-> 0]
  /\ ticket = [t \in Tasks |-> 0]
  /\ nextTicket = 1
  /\ done = [t \in Tasks |-> 0]
  /\ prevGrantAt = [c \in Classes |-> -1]
  /\ lastTicket = [c \in Classes |-> 0]

\* a caller outside the session manager invokes Throttle.check(c)
CallNoWait(t, c) ==
  /\ done[t] < MaxChecks
  /\ CheckNoWait(t, c)
  /\ UNCHANGED <<sessionVars, pureVars>>

CallWait(t, c) ==
  /\ done[t] < MaxChecks
  /\ CheckWait(t, c)
  /\ UNCHANGED <<sessionVars, pureVars>>

TimerFires(t) == Wake(t) /\ UNCHANGED <<sessionVars, pureVars>>

ClockTick(d) == Tick(d) /\ UNCHANGED <<sessionVars, pureVars>>

ClockToDue(t) == TickToDue(t) /\ UNCHANGED <<sessionVars, pureVars>>

ThrottleNext ==
  \/ \E t \in Tasks, c \in Classes : CallNoWait(t, c)
  \/ \E t \in Tasks, c \in Classes : CallWait(t, c)
  \/ \E t \in Tasks : TimerFires(t)
  \/ \E d \in TickSteps : ClockTick(d)
  \/ \E t \in Tasks : ClockToDue(t)

(***************************************************************************)
(* Session manager: request(url) with cookie priming and the retry on 401. *)
(***************************************************************************)
SearchUrl == "api/search/autocomplete"
Urls == {SearchUrl, "api/marketStatus"}
PrimeUrl == "option-chain"
Statuses == {200, 401, 500}

\* throttle class of an outbound call
ClassOf(u) == IF u = SearchUrl THEN "lookup" ELSE "default"

\* the URL of the outbound call task t is making in its current phase
CallUrl(t) == IF phase[t] \in {"prime0", "prime"} THEN PrimeUrl ELSE url[t]

\* `await Throttle.check(c)` up to its first suspension
CheckEnter(t, c) == CheckNoWait(t, c) \/ CheckWait(t, c)

SessionIdle ==
  /\ phase = [t \in Tasks |-> "none"]
  /\ url = [t \in Tasks |-> PrimeUrl]
  /\ inflight = [t \in Tasks |-> FALSE]
  /\ result = [t \in Tasks |-> "pending"]
  /\ status = [t \in Tasks |-> 0]
  /\ attempts = [t \in Tasks |-> 0]
  /\ reprimes = [t \in Tasks |-> 0]
  /\ sent = [t \in Tasks |-> 0]
  /\ requests = [t \in Tasks |-> 0]
  /\ primed = FALSE

\* request(u) is invoked: prime first when the jar has no cookies yet, and
\* await the throttle before the first outbound call
StartRequest(t, u) ==
  /\ t \in callers
  /\ requests[t] < MaxRequests
  /\ ~inflight[t]
  /\ phase[t] = "none" \/ result[t] # "pending"
  /\ phase' = [phase EXCEPT ![t] = IF primed THEN "attempt" ELSE "prime0"]
  /\ url' = [url EXCEPT ![t] = u]
  /\ result' = [result EXCEPT ![t] = "pending"]
  /\ status' = [status EXCEPT ![t] = 0]
  /\ attempts' = [attempts EXCEPT ![t] = 0]
  /\ reprimes' = [reprimes EXCEPT ![t] = 0]
  /\ CheckEnter(t, IF primed THEN ClassOf(u) ELSE ClassOf(PrimeUrl))
  /\ UNCHANGED <<inflight, sent, requests, primed, pureVars>>

\* the outbound call is issued without waiting for the check to complete
SendUnchecked(t) ==
  /\ t \in callers
  /\ phase[t] # "none"
  /\ result[t] = "pending"
  /\ ~inflight[t]
  /\ inflight' = [inflight EXCEPT ![t] = TRUE]
  /\ sent' = [sent EXCEPT ![t] = @ + 1]
  /\ attempts' = [attempts EXCEPT ![t] =
                    IF phase[t] \in {"attempt", "replay"} THEN @ + 1 ELSE @]
  /\ UNCHANGED <<throttleVars, phase, url, result, status, reprimes, requests,
                 primed, pureVars>>

\* the awaited check has completed: the outbound call is issued
Send(t) ==
  /\ t \in callers
  /\ phase[t] # "none"
  /\ result[t] = "pending"
  /\ ~inflight[t]
  /\ pc[t] = "idle"
  /\ done[t] = sent[t] + 1
  /\ inflight' = [inflight EXCEPT ![t] = TRUE]
  /\ sent' = [sent EXCEPT ![t] = @ + 1]
  /\ attempts' = [attempts EXCEPT ![t] =
                    IF phase[t] \in {"attempt", "replay"} THEN @ + 1 ELSE @]
  /\ UNCHANGED <<throttleVars, phase, url, result, status, reprimes, requests,
                 primed, pureVars>>

\* a 401 answer to the replay starts another round of priming and replay
NextPhaseRetryAgain(ph, st) ==
  CASE ph \in {"prime0", "prime"} /\ st = 200 -> IF ph = "prime0" THEN "attempt"
                                                                  ELSE "replay"
    [] ph \in {"attempt", "replay"} /\ st = 401 -> "prime"
    [] OTHER -> ""

\* the next phase after a response with status st, "" when the request ends
NextPhase(ph, st) ==
  CASE ph \in {"prime0", "prime"} /\ st = 200 -> IF ph = "prime0" THEN "attempt"
                                                                  ELSE "replay"
    [] ph = "attempt" /\ st = 401 -> "prime"
    [] OTHER -> ""

\* a response arrives and the request ends, with the body or with the error
Finish(t, st) ==
  /\ t \in callers
  /\ inflight[t]
  /\ NextPhase(phase[t], st) = ""
  /\ inflight' = [inflight EXCEPT ![t] = FALSE]
  /\ status' = [status EXCEPT ![t] = st]
  /\ result' = [result EXCEPT ![t] = IF st = 200 THEN "ok" ELSE "error"]
  /\ requests' = [requests EXCEPT ![t] = @ + 1]
  /\ UNCHANGED <<throttleVars, phase, url, attempts, reprimes, sent, primed,
                 pureVars>>

\* a response arrives and request() goes on with its next outbound call
\* (the first attempt after priming, the priming after a 401, the replay),
\* awaiting the throttle first
Continue(t, st) ==
  /\ t \in callers
  /\ inflight[t]
  /\ NextPhase(phase[t], st) # ""
  /\ inflight' = [inflight EXCEPT ![t] = FALSE]
  /\ status' = [status EXCEPT ![t] = st]
  /\ phase' = [phase EXCEPT ![t] = NextPhase(phase[t], st)]
  /\ primed' = IF phase[t] \in {"prime0", "prime"} THEN TRUE ELSE primed
  /\ reprimes' = [reprimes EXCEPT ![t] = IF phase[t] = "attempt" THEN @ + 1 ELSE @]
  /\ LET ph == NextPhase(phase[t], st)
     IN  CheckEnter(t, ClassOf(IF ph = "prime" THEN PrimeUrl ELSE url[t]))
  /\ UNCHANGED <<url, result, attempts, sent, requests, pureVars>>

SessionTimerFires(t) == Wake(t) /\ UNCHANGED <<sessionVars, pureVars>>

SessionClockToDue(t) == TickToDue(t) /\ UNCHANGED <<sessionVars, pureVars>>

SessionClockTick(d) == Tick(d) /\ UNCHANGED <<sessionVars, pureVars>>

SessionNext ==
  \/ \E t \in Tasks, u \in Urls : StartRequest(t, u)
  \/ \E t \in Tasks : Send(t)
  \/ \E t \in Tasks, st \in Statuses : Finish(t, st)
  \/ \E t \in Tasks, st \in Statuses : Continue(t, st)
  \/ \E t \in Tasks : SessionTimerFires(t)
  \/ \E t \in Tasks : SessionClockToDue(t)
  \/ \E d \in TickSteps : SessionClockTick(d)

NoDate == -1
NoValue == [some |-> FALSE, rows |-> <<>>, turnover |-> <<>>]

ApiIdle ==
  /\ endpoint = "" /\ from_date = NoDate /\ to_date = NoDate
  /\ opts = [series |-> <<>>, instrument |-> "", option_type |-> ""]
  /\ idx = 0 /\ results = <<>> /\ turnover = <<>>
  /\ apiState = "idle" /\ error = ""
  /\ requestLog = <<>> /\ failedChunk = 0 /\ received = <<>>
  /\ returned = NoValue

(***************************************************************************)
(* Values of the option-chain, market-data and parser models.              *)
(***************************************************************************)
\* a leg (CE or PE) that the row does not carry
NoLeg == -1
\* an omitted expiry / count argument
NoExpiry == <<>>
NoCount == -99

\* JavaScript numbers that are not plain integers: a ratio is kept in
\* hundredths (the result of toFixed(2)), next to NaN, Infinity and null
Num(v) == [kind |-> "number", v |-> v]
NaN == [kind |-> "NaN", v |-> 0]
Infinity == [kind |-> "Infinity", v |-> 0]
Null == [kind |-> "null", v |-> 0]

NoCompiled == [some |-> FALSE, atm |-> Num(0), maxpain |-> 0, maxCoi |-> 0,
               maxPoi |-> 0, coiTotal |-> 0, poiTotal |-> 0, pcr |-> Num(0),
               chain |-> <<>>]
NoFiltered == [some |-> FALSE, atmStrike |-> 0, minStrike |-> 0,
               maxStrike |-> 0, totalStrikes |-> 0, data |-> <<>>]

ChainIdle ==
  /\ schema = "expiryDates" /\ chain = <<>> /\ underlying = 0
  /\ expiryDate = NoDate /\ expiry = NoExpiry /\ strikeRange = 0
  /\ chainOp = "" /\ maxpain = 0
  /\ oc = NoCompiled /\ filtered = NoFiltered

NoContractInfo == [expiryDates |-> <<>>, hasExpiryDates |-> FALSE,
                   records |-> <<>>, hasRecords |-> FALSE]

OptIdle ==
  /\ optState = "idle" /\ optCall = "" /\ optExpiry = NoExpiry
  /\ contractInfo = NoContractInfo
  /\ expiries = <<>> /\ optLog = <<>> /\ optError = ""

MarketIdle ==
  /\ marketData = <<>> /\ count = NoCount /\ marketOp = "" /\ marketOut = <<>>

\* `private result: Partial<LookupResult> = {}; start = false; index = 0`
\* a field that is not in `result`; a populated field holds a fragment, the
\* non-empty sequence of the words of its text
Absent == <<>>
EmptyResult == [company_name |-> Absent, symbol |-> Absent, isin |-> Absent,
                bse_code |-> Absent]
NotCalled == [called |-> FALSE, isNull |-> TRUE, value |-> EmptyResult]

ParserIdle ==
  /\ parserResult = EmptyResult /\ start = FALSE /\ index = 0
  /\ feeds = 0 /\ lastFeed = <<>> /\ before = EmptyResult
  /\ got = NotCalled /\ lastOp = ""

AnalyticsIdle == ChainIdle /\ OptIdle /\ MarketIdle /\ ParserIdle

(***************************************************************************)
(* Date-range chunker: splitDateRange(from, to, chunkDays).                *)
(***************************************************************************)
Min(a, b) == IF a <= b THEN a ELSE b

\* only a range swapped by more than a day is rejected
InvalidRangeLoose(f, t) == f > t + OneDay

\* the precondition of splitDateRange and the guard validateDateRange
InvalidRange(f, t) == f > t

\* floor((to - from) / oneDay) + 1
TotalDaysInclusive(f, t) == ((t - f) \div OneDay) + 1

\* the number of chunks rounded down instead of up
splitDateRangeFloor(f, t, n) ==
  LET numChunks == TotalDaysInclusive(f, t) \div n
  IN  [i \in 1..numChunks |->
         << f + (i - 1) * n * OneDay,
            Min(f + (i * n - 1) * OneDay, t) >>]

\* the chunks of [f, t], at most n days each, for f <= t
splitDateRange(f, t, n) ==
  LET numChunks == Ceil(TotalDaysInclusive(f, t), n)
  IN  [i \in 1..numChunks |->
         << f + (i - 1) * n * OneDay,
            Min(f + (i * n - 1) * OneDay, t) >>]

SplitIdle ==
  /\ from = 0 /\ to = 0 /\ chunkDays = 1
  /\ chunks = <<>>
  /\ splitState = "input"

\* splitDateRange is called with from <= to and returns its chunks
SplitReturns ==
  /\ splitState = "input"
  /\ ~InvalidRange(from, to)
  /\ chunks' = splitDateRange(from, to, chunkDays)
  /\ splitState' = "returned"
  /\ UNCHANGED <<from, to, chunkDays, throttleVars, sessionVars, apiVars,
                 analyticsVars>>

\* splitDateRange is called with from after to and throws
SplitThrows ==
  /\ splitState = "input"
  /\ InvalidRange(from, to)
  /\ splitState' = "thrown"
  /\ UNCHANGED <<from, to, chunkDays, chunks, throttleVars, sessionVars,
                 apiVars, analyticsVars>>

InitSplit ==
  /\ ThrottleInit({}) /\ SessionIdle /\ ApiIdle /\ AnalyticsIdle
  /\ from \in Instants /\ to \in Instants /\ chunkDays \in 1..MaxChunkDays
  /\ chunks = <<>>
  /\ splitState = "input"

SplitNext == SplitReturns \/ SplitThrows

SpecSplit == InitSplit /\ [][SplitNext]_vars

(***************************************************************************)
(* Endpoint modules that accept a from/to date pair.                       *)
(***************************************************************************)
HistoricalEndpoints == {"fetchEquityHistoricalData", "fetchHistoricalVixData",
                        "fetchHistoricalFnoData", "fetchHistoricalIndexData"}
CorporateEndpoints == {"getActions", "getAnnouncements", "getBoardMeetings"}

\* days given to the endpoints, and the instant `new Date()` yields
ApiDays == {0, 100, 250, 400}
ApiDates == {d * OneDay + h : d \in ApiDays, h \in {0, OneDay - 1}}
Today == 400 * OneDay + 1

NoOpts == [series |-> <<>>, instrument |-> "", option_type |-> ""]

\* formatDateDMY: the calendar day of an instant
formatDateDMY(d) == d \div OneDay

\* validateDateRange(from, to) throws when from is after to
validateDateRange(f, t) == IF InvalidRange(f, t) THEN "InvalidRange" ELSE ""

\* `to_date ?? new Date()` and `from_date ?? new Date(to - n * 86400000)`
DefaultTo(td) == IF td = NoDate THEN Today ELSE td
DefaultFrom(fd, t, n) == IF fd = NoDate THEN t - n * OneDay ELSE fd

\* the query of the request for the chunk <<cFrom, cTo>>
Query(ep, chunk) ==
  [endpoint |-> ep, from |-> formatDateDMY(chunk[1]), to |-> formatDateDMY(chunk[2])]

\* fetchEquityHistoricalData of src/unnamed/part_003, which requests every
\* chunk once per series
PerSeriesEndpoint == "fetchEquityHistoricalData (per series)"

\* the query of the request for the chunk <<cFrom, cTo>> and the series sr
SeriesQuery(ep, sr, chunk) ==
  [endpoint |-> ep, series |-> sr,
   from |-> formatDateDMY(chunk[1]), to |-> formatDateDMY(chunk[2])]

\* a query without a date range
PlainQuery(ep) == [endpoint |-> ep, from |-> NoDate, to |-> NoDate]

Reverse(q) == [i \in 1..Len(q) |-> q[Len(q) + 1 - i]]

\* the endpoint throws before its first request
Throw(ep, fd, td, o, err) ==
  /\ endpoint' = ep /\ from_date' = fd /\ to_date' = td /\ opts' = o
  /\ apiState' = "thrown"
  /\ error' = err
  /\ UNCHANGED <<idx, results, turnover, requestLog, failedChunk, received,
                 returned,
                 splitVars, throttleVars, sessionVars,
                 analyticsVars>>

\* the endpoint computes its chunks cs of [f, t] and awaits its first request
Begin(ep, fd, td, o, f, t, n, cs, q) ==
  /\ endpoint' = ep /\ from_date' = fd /\ to_date' = td /\ opts' = o
  /\ from' = f /\ to' = t /\ chunkDays' = n
  /\ chunks' = cs
  /\ idx' = 1
  /\ requestLog' = <<q>>
  /\ apiState' = "awaiting"
  /\ UNCHANGED <<results, turnover, error, failedChunk, received, returned,
                 splitState,
                 throttleVars, sessionVars,
                 analyticsVars>>

\* fetchEquityHistoricalData, fetchHistoricalVixData, fetchHistoricalFnoData,
\* fetchHistoricalIndexData: from the call to the first await
FetchHistorical(ep, fd, td, o) ==
  /\ apiState = "idle"
  /\ ep \in HistoricalEndpoints
  /\ LET t == DefaultTo(td)
         f == DefaultFrom(fd, t, 30)
         n == IF ep = "fetchEquityHistoricalData" THEN 100 ELSE 365
         simple == /\ ep = "fetchEquityHistoricalData"
                   /\ fd = NoDate /\ td = NoDate /\ o.series = <<"EQ">>
         err == IF simple THEN ""
                ELSE IF validateDateRange(f, t) # "" THEN validateDateRange(f, t)
                ELSE IF /\ ep = "fetchHistoricalFnoData"
                        /\ o.instrument \in {"OPTIDX", "OPTSTK"}
                        /\ o.option_type = ""
                     THEN "OptionTypeRequired"
                ELSE ""
     IN  IF err # "" THEN Throw(ep, fd, td, o, err)
         ELSE IF simple
              THEN Begin(ep, fd, td, o, f, t, n, << <<f, t>> >>, PlainQuery(ep))
              ELSE Begin(ep, fd, td, o, f, t, n, splitDateRange(f, t, n),
                         Query(ep, splitDateRange(f, t, n)[1]))

\* fetchEquityHistoricalData of src/unnamed/part_003: from the call to the
\* first await
FetchPerSeries(fd, td, o) ==
  /\ apiState = "idle"
  /\ LET t == DefaultTo(td)
         f == DefaultFrom(fd, t, 30)
         err == validateDateRange(f, t)
     IN  IF err # "" THEN Throw(PerSeriesEndpoint, fd, td, o, err)
         ELSE Begin(PerSeriesEndpoint, fd, td, o, f, t, 100, splitDateRange(f, t, 100),
                    SeriesQuery(PerSeriesEndpoint, o.series[1],
                                splitDateRange(f, t, 100)[1]))

\* getActions, getAnnouncements, getBoardMeetings
GetCorporate(ep, fd, td) ==
  /\ apiState = "idle"
  /\ ep \in CorporateEndpoints
  /\ LET both == fd # NoDate /\ td # NoDate
         err == IF both THEN validateDateRange(fd, td) ELSE ""
     IN  IF err # "" THEN Throw(ep, fd, td, NoOpts, err)
         ELSE Begin(ep, fd, td, NoOpts, fd, td, 0, << <<fd, td>> >>,
                    IF both THEN Query(ep, <<fd, td>>) ELSE PlainQuery(ep))

\* getCirculars
GetCirculars(fd, td) ==
  /\ apiState = "idle"
  /\ LET t == DefaultTo(td)
         f == DefaultFrom(fd, t, 7)
         err == validateDateRange(f, t)
     IN  IF err # "" THEN Throw("getCirculars", fd, td, NoOpts, err)
         ELSE Begin("getCirculars", fd, td, NoOpts, f, t, 0, << <<f, t>> >>,
                    Query("getCirculars", <<f, t>>))

\* listPastIPO
ListPastIPO(fd, td) ==
  /\ apiState = "idle"
  /\ LET t == DefaultTo(td)
         f == DefaultFrom(fd, t, 90)
     IN  IF t < f THEN Throw("listPastIPO", fd, td, NoOpts, "InvalidRange")
         ELSE Begin("listPastIPO", fd, td, NoOpts, f, t, 0, << <<f, t>> >>,
                    Query("listPastIPO", <<f, t>>))

\* getBulkDeals: only a range longer than 365 days is rejected
GetBulkDeals(fd, td) ==
  /\ apiState = "idle"
  /\ fd # NoDate /\ td # NoDate
  /\ IF td - fd > 365 * OneDay
     THEN Throw("getBulkDeals", fd, td, NoOpts, "RangeExceedsYear")
     ELSE Begin("getBulkDeals", fd, td, NoOpts, fd, td, 0, << <<fd, td>> >>,
                Query("getBulkDeals", <<fd, td>>))

\* the number of requests of a fetch that succeeds
Steps == IF endpoint = PerSeriesEndpoint THEN Len(opts.series) * Len(chunks)
         ELSE Len(chunks)

\* the chunks are walked from the last to the first
ChunkAtDescending(i) ==
  chunks[Len(chunks) - ((i - 1) % Len(chunks))]

\* `for (const [cFrom, cTo] of chunks)`: the chunk of the i-th request
ChunkAt(i) ==
  chunks[((i - 1) % Len(chunks)) + 1]

\* `for (const seriesType of series)`: the series of the i-th request
SeriesAt(i) == opts.series[((i - 1) \div Len(chunks)) + 1]

\* the query of the i-th request
QueryAt(i) == IF endpoint = PerSeriesEndpoint
              THEN SeriesQuery(endpoint, SeriesAt(i), ChunkAt(i))
              ELSE Query(endpoint, ChunkAt(i))

\* the endpoints that reverse the rows of each response
ReversesRows == {"fetchEquityHistoricalData", PerSeriesEndpoint}

\* the rows of the k-th response, n of them
Rows(k, n) == [j \in 1..n |-> 10 * k + j]

\* the awaited request resolves with a body holding n rows (and the
\* turnover records ts): the rows are accumulated and the endpoint issues
\* the request for the next chunk, or returns
RequestResolves(n, ts) ==
  /\ apiState = "awaiting"
  /\ endpoint # "fetchHistoricalIndexData" => ts = <<>>
  /\ LET rs == Rows(idx, n)
         rows == IF endpoint \in ReversesRows THEN Reverse(rs) ELSE rs
         noData == endpoint = "getBulkDeals" /\ Len(rs) < 1
     IN  /\ results' = IF noData THEN results ELSE results \o rows
         /\ received' = Append(received, n)
         /\ turnover' = turnover \o ts
         /\ IF noData
            THEN /\ apiState' = "thrown"
                 /\ error' = "NoData"
                 /\ UNCHANGED <<idx, requestLog, returned>>
            ELSE IF idx < Steps
            THEN /\ idx' = idx + 1
                 /\ requestLog' = Append(requestLog, QueryAt(idx + 1))
                 /\ UNCHANGED <<apiState, error, returned>>
            ELSE /\ apiState' = "returned"
                 /\ returned' = [some |-> TRUE, rows |-> results \o rows,
                                 turnover |-> turnover \o ts]
                 /\ UNCHANGED <<idx, requestLog, error>>
  /\ UNCHANGED <<endpoint, from_date, to_date, opts, failedChunk, splitVars,
                 throttleVars, sessionVars,
                 analyticsVars>>

\* the awaited request rejects and the chunk loop catches the error and
\* goes on with the next chunk
RequestRejectsSwallowed ==
  /\ apiState = "awaiting"
  /\ failedChunk' = idx
  /\ IF idx < Steps
     THEN /\ idx' = idx + 1
          /\ requestLog' = Append(requestLog, QueryAt(idx + 1))
          /\ UNCHANGED <<apiState, returned>>
     ELSE /\ apiState' = "returned"
          /\ returned' = [some |-> TRUE, rows |-> results, turnover |-> turnover]
          /\ UNCHANGED <<idx, requestLog>>
  /\ UNCHANGED <<endpoint, from_date, to_date, opts, results, turnover, error,
                 received, splitVars, throttleVars, sessionVars,
                 analyticsVars>>

\* the awaited request rejects: the error propagates out of the endpoint
RequestRejects ==
  /\ apiState = "awaiting"
  /\ apiState' = "thrown"
  /\ error' = "Http"
  /\ failedChunk' = idx
  /\ UNCHANGED <<endpoint, from_date, to_date, opts, idx, results, turnover,
                 requestLog, received, returned, splitVars, throttleVars,
                 sessionVars, analyticsVars>>

TurnoverChoices == {<<>>, <<9>>}
ArgDates == ApiDates \cup {NoDate}
FnoOpts == {[series |-> <<>>, instrument |-> i, option_type |-> ot] :
              i \in {"FUTIDX", "OPTIDX"}, ot \in {"", "CE"}}
EquityOpts == {[series |-> sr, instrument |-> "", option_type |-> ""] :
                 sr \in {<<"EQ">>, <<"EQ", "BE">>}}
\* <<from_date, to_date>> given to the per-series fetch: up to three chunks
PerSeriesDates ==
  LET last == 250 * OneDay + (OneDay - 1)
  IN  {<<0, last>>, <<100 * OneDay, last>>, <<NoDate, last>>, <<NoDate, NoDate>>,
       <<last, 0>>}

OptsOf(ep) == IF ep = "fetchHistoricalFnoData" THEN FnoOpts
              ELSE IF ep = "fetchEquityHistoricalData" THEN EquityOpts
              ELSE {NoOpts}

InitApi == ThrottleInit({}) /\ SessionIdle /\ SplitIdle /\ ApiIdle
  /\ AnalyticsIdle

ApiNext ==
  \/ \E ep \in HistoricalEndpoints, fd \in ArgDates, td \in ArgDates :
       \E o \in OptsOf(ep) : FetchHistorical(ep, fd, td, o)
  \/ \E a \in PerSeriesDates, o \in EquityOpts : FetchPerSeries(a[1], a[2], o)
  \/ \E ep \in CorporateEndpoints, fd \in ArgDates, td \in ArgDates :
       GetCorporate(ep, fd, td)
  \/ \E fd \in ArgDates, td \in ArgDates : GetCirculars(fd, td)
  \/ \E fd \in ArgDates, td \in ArgDates : ListPastIPO(fd, td)
  \/ \E fd \in ApiDates, td \in ApiDates : GetBulkDeals(fd, td)
  \/ \E n \in 0..MaxRows, ts \in TurnoverChoices : RequestResolves(n, ts)
  \/ RequestRejects

SpecApi == InitApi /\ [][ApiNext]_vars

\* one caller that awaits each check before issuing the next
InitSeq == ThrottleInit({1}) /\ SessionIdle /\ SplitIdle /\ ApiIdle
  /\ AnalyticsIdle
SpecSeq == InitSeq /\ [][ThrottleNext]_vars

\* several logical tasks sharing the module-level timestamps
InitThrottle == ThrottleInit(Tasks) /\ SessionIdle /\ SplitIdle /\ ApiIdle
  /\ AnalyticsIdle
SpecThrottle == InitThrottle /\ [][ThrottleNext]_vars

\* a logical task issuing requests through the session manager
InitSession == ThrottleInit({1}) /\ SessionIdle /\ SplitIdle /\ ApiIdle
  /\ AnalyticsIdle
SpecSession == InitSession /\ [][SessionNext]_vars

\* the completion times of the last two completed checks of class c are at
\* least delay[c] ms apart (the last one is the value of lastXRequest)
Spaced(c) ==
  prevGrantAt[c] >= 0 => LastRequest(c) - prevGrantAt[c] >= throttleConfig[c].delay

\* C1: with a single caller that awaits each check before issuing the next,
\* two consecutive completed checks of one class are at least delay[class]
\* ms apart (125 for default, 67 for lookup).
SequentialSpacing ==
  /\ throttleConfig["default"].delay = 125
  /\ throttleConfig["lookup"].delay = 67
  /\ callers = {1} => \A c \in Classes : Spaced(c)

\* C1 witness: the single caller has completed two checks of one class, the
\* second one after a suspension that ended exactly delay ms after the first
SequentialSpacingWitness ==
  /\ callers = {1}
  /\ done[1] = 2
  /\ \E c \in Classes :
       /\ prevGrantAt[c] >= 0
       /\ LastRequest(c) - prevGrantAt[c] = throttleConfig[c].delay
       /\ wakeAt[1] = LastRequest(c)

\* C2: in every interleaving of concurrent tasks, no two checks of one class
\* complete less than delay[class] ms apart.
ConcurrentSpacing ==
  \A c \in Classes :
    \/ prevGrantAt[c] < 0
    \/ prevGrantAt[c] + throttleConfig[c].delay <= LastRequest(c)

\* C3: checks of one class complete in call order: no check is still
\* suspended after a check of the same class that was invoked later has
\* completed at an earlier instant.
GrantedInCallOrder ==
  \A t \in callers :
    (pc[t] = "waiting" /\ ticket[t] < lastTicket[type[t]])
      => now <= LastRequest(type[t])

\* C4: a request makes at most two attempts and at most one re-prime; the
\* replay happens only after a 401 and a re-prime, a 401 is surfaced only as
\* the answer to the replay, and nothing is in flight once the request ended.
RetryOnceOn401 ==
  \A t \in callers :
    /\ attempts[t] <= 2
    /\ reprimes[t] <= 1
    /\ (phase[t] = "replay" \/ attempts[t] = 2) => reprimes[t] = 1
    /\ (result[t] = "error" /\ status[t] = 401 /\ phase[t] \in {"attempt", "replay"})
         => (phase[t] = "replay" /\ attempts[t] = 2)
    /\ result[t] # "pending" => ~inflight[t]

\* C4 witness: the replay was answered 401 and the error was surfaced
RetryOnceOn401Witness ==
  /\ result[1] = "error" /\ status[1] = 401
  /\ phase[1] = "replay" /\ attempts[1] = 2 /\ reprimes[1] = 1

\* C5: whenever an outbound call is in flight, the task has completed one
\* check per outbound call it issued, and the last completed check was of
\* the class of that call: lookup for the search URL, default otherwise.
CheckBeforeSend ==
  \A t \in callers :
    /\ sent[t] <= done[t]
    /\ inflight[t] =>
         /\ pc[t] = "idle"
         /\ done[t] = sent[t]
         /\ type[t] = IF phase[t] \in {"attempt", "replay"}
                         /\ url[t] = "api/search/autocomplete"
                      THEN "lookup" ELSE "default"

\* C5 witness: the replay of a search request is in flight after a check
\* of class lookup that had to wait
CheckBeforeSendWitness ==
  /\ inflight[1] /\ phase[1] = "replay" /\ url[1] = SearchUrl
  /\ type[1] = "lookup" /\ wakeAt[1] > 0

\* whole days between f and t, plus one: the number of instants f + d days
\* (d = 0, 1, ...) that are not after t
InclusiveDays(f, t) == Cardinality({d \in 0..MaxInstant : f + d * OneDay <= t})

\* C6: for from <= to the first chunk starts at from, the last chunk ends at
\* to, each chunk starts one day after the previous one ends, and every
\* chunk is non-empty, so the chunks cover [from, to] without gap or overlap.
SplitCoversRange ==
  splitState = "returned" =>
    /\ Len(chunks) >= 1
    /\ chunks[1][1] = from
    /\ chunks[Len(chunks)][2] = to
    /\ \A i \in 1..Len(chunks) : chunks[i][1] <= chunks[i][2]
    /\ \A i \in 1..(Len(chunks) - 1) : chunks[i + 1][1] = chunks[i][2] + OneDay

\* C7: for from <= to the number of chunks is ceil(inclusiveDays/chunkDays),
\* i.e. the least k with k * chunkDays >= inclusiveDays, each chunk spans at
\* most chunkDays days, and from = to yields the single chunk [from, from].
SplitChunkCount ==
  splitState = "returned" =>
    /\ Len(chunks) * chunkDays >= InclusiveDays(from, to)
    /\ (Len(chunks) - 1) * chunkDays < InclusiveDays(from, to)
    /\ \A i \in 1..Len(chunks) :
         chunks[i][2] - chunks[i][1] <= (chunkDays - 1) * OneDay
    /\ from = to => chunks = << <<from, from>> >>

\* C7 witness: a range split into several chunks, the last one shorter
SplitChunkCountWitness ==
  /\ splitState = "returned"
  /\ Len(chunks) >= 2
  /\ InclusiveDays(from, to) % chunkDays # 0

\* C8: splitDateRange called with from after to throws and returns no chunks
SplitRejectsSwapped ==
  (from > to /\ splitState # "input") => (splitState = "thrown" /\ chunks = <<>>)

\* C8 witness: a call with from after to has thrown
SplitRejectsSwappedWitness ==
  /\ from > to
  /\ splitState = "thrown"

\* C9: when the request for a chunk fails, the fetch throws that error, the
\* failed request is the last one issued, and no rows are returned.
ChunkFailureAborts ==
  failedChunk # 0 =>
    /\ apiState = "thrown"
    /\ error = "Http"
    /\ Len(requestLog) = failedChunk
    /\ returned = NoValue

\* C9 witness: a historical fetch failed on a chunk that is neither the first
\* nor the last, after rows of earlier chunks had been accumulated
ChunkFailureAbortsWitness ==
  /\ endpoint \in HistoricalEndpoints
  /\ apiState = "thrown"
  /\ failedChunk >= 2 /\ failedChunk < Len(chunks)
  /\ results # <<>>

\* C10: every endpoint called with a date pair whose from is after its to
\* throws without having issued a request.
SwappedPairRejectedBeforeRequest ==
  (apiState # "idle" /\ from_date # NoDate /\ to_date # NoDate /\ from_date > to_date)
    => (apiState = "thrown" /\ requestLog = <<>>)

(***************************************************************************)
(* Option chain: rows, expiry strings, max pain.                           *)
(* Strike prices are whole numbers, so that the keys of painMap are        *)
(* integer keys, which Object.keys enumerates in ascending numeric order.  *)
(***************************************************************************)
MaxChainRows == 3

\* an expiry string "DD-Mon-YYYY" is kept as <<DD, Mon, YYYY>>
ExpiryStrings == {<<30, "Dec", 2025>>, <<6, "Jan", 2026>>}
\* the value of a property the row does not carry
Undefined == <<"undefined">>

\* formatDateExpiry: the "DD-Mon-YYYY" string of the calendar day of an
\* instant; day 0 is 30-Dec-2025
formatDateExpiry(d) ==
  LET n == d \div OneDay
  IN  IF n < 2 THEN <<30 + n, "Dec", 2025>> ELSE <<n - 1, "Jan", 2026>>

\* Date arguments: the first instant of one expiry day and the last instant
\* of the other
ExpiryDateArgs == {0, 7 * OneDay + (OneDay - 1)}

Schemas == {"expiryDates", "expiryDate"}
StrikePrices == {100, 110, 120}
\* <<CE open interest, PE open interest>> of a row
PainLegs == {<<NoLeg, 2>>, <<1, NoLeg>>, <<1, 1>>}

Row(k, e, ce, pe) == [strikePrice |-> k, expiry |-> e, CE |-> ce, PE |-> pe]

\* the expiry is read from whichever key carries it
expiryDatesOrDate(sch, x) ==
  x.expiry

\* `x.expiryDates` and `x.expiryDates || x.expiryDate` of a row
expiryDatesOf(sch, x) == IF sch = "expiryDates" THEN x.expiry ELSE Undefined
itemExpiry(sch, x) == x.expiry

RECURSIVE SumSeq(_)
SumSeq(q) == IF q = <<>> THEN 0 ELSE Head(q) + SumSeq(Tail(q))

\* Array.prototype.sort with a comparator that orders by the keys k[i]
\* ascending: the sort is stable, equal keys keep their order
StableSort(q, k) ==
  [r \in 1..Len(q) |->
     q[CHOOSE i \in 1..Len(q) :
         Cardinality({j \in 1..Len(q) : k[j] < k[i] \/ (k[j] = k[i] /\ j < i)})
           = r - 1]]

\* the elements of a finite set of numbers in ascending order
Ascending(S) ==
  [r \in 1..Cardinality(S) |->
     CHOOSE x \in S : Cardinality({y \in S : y < x}) = r - 1]

\* the inner loop without the expiry test: every row contributes
PainAllRows(data, matches, K) ==
  SumSeq([i \in 1..Len(data) |->
            LET diff == K - data[i].strikePrice
            IN  (IF diff > 0 /\ data[i].CE # NoLeg THEN (-diff) * data[i].CE ELSE 0)
                + (IF diff < 0 /\ data[i].PE # NoLeg THEN diff * data[i].PE ELSE 0)])

\* the inner loop: pain of expiryStrike K over the rows y that match
Pain(data, matches, K) ==
  SumSeq([i \in 1..Len(data) |->
            IF ~matches[i] THEN 0
            ELSE LET diff == K - data[i].strikePrice
                 IN  (IF diff > 0 /\ data[i].CE # NoLeg THEN (-diff) * data[i].CE ELSE 0)
                     + (IF diff < 0 /\ data[i].PE # NoLeg THEN diff * data[i].PE ELSE 0)])

\* painMap, Object.keys(painMap).map(Number), the descending-pain sort and
\* `[0] || 0`
MaxPainOf(data, matches) ==
  LET keys == {data[i].strikePrice : i \in {j \in 1..Len(data) : matches[j]}}
      strikes == Ascending(keys)
      sorted == StableSort(strikes,
                           [r \in 1..Len(strikes) |-> -Pain(data, matches, strikes[r])])
  IN  IF sorted = <<>> THEN 0 ELSE sorted[1]

\* calculateMaxPain(optionChain, expiryDate)
calculateMaxPain(sch, data, d) ==
  LET expiryDateStr == formatDateExpiry(d)
  IN  MaxPainOf(data, [i \in 1..Len(data) |-> itemExpiry(sch, data[i]) = expiryDateStr])

\* calculateMaxPainV3(optionChain, expiry)
calculateMaxPainV3(sch, data, e) ==
  MaxPainOf(data, [i \in 1..Len(data) |-> expiryDatesOf(sch, data[i]) = e])

\* the chain of the unit tests: strikes 100/110/120, CE 10/5/0, PE 0/5/15
ExampleChain ==
  << Row(100, <<30, "Dec", 2025>>, 10, 0), Row(110, <<30, "Dec", 2025>>, 5, 5),
     Row(120, <<30, "Dec", 2025>>, 0, 15) >>

PainRows == {Row(k, e, l[1], l[2]) : k \in StrikePrices, e \in ExpiryStrings,
                                     l \in PainLegs}

\* the sequences of at most n elements of S
SeqsUpTo(S, n) == UNION {[1..m -> S] : m \in 0..n}

CalcMaxPain(d) ==
  /\ chainOp = ""
  /\ chainOp' = "calculateMaxPain"
  /\ expiryDate' = d
  /\ expiry' = formatDateExpiry(d)
  /\ maxpain' = calculateMaxPain(schema, chain, d)
  /\ UNCHANGED <<schema, chain, underlying, strikeRange, oc, filtered>>
  /\ UNCHANGED <<throttleVars, sessionVars, splitVars, apiVars, optVars,
                 marketVars, parserVars>>

CalcMaxPainV3(e) ==
  /\ chainOp = ""
  /\ chainOp' = "calculateMaxPainV3"
  /\ expiry' = e
  /\ maxpain' = calculateMaxPainV3(schema, chain, e)
  /\ UNCHANGED <<schema, chain, underlying, expiryDate, strikeRange, oc, filtered>>
  /\ UNCHANGED <<throttleVars, sessionVars, splitVars, apiVars, optVars,
                 marketVars, parserVars>>

InitPain ==
  /\ ThrottleInit({}) /\ SessionIdle /\ SplitIdle /\ ApiIdle
  /\ OptIdle /\ MarketIdle /\ ParserIdle
  /\ schema \in Schemas
  /\ chain \in SeqsUpTo(PainRows, MaxChainRows) \cup {ExampleChain}
  /\ underlying = 0 /\ expiryDate = NoDate /\ expiry = NoExpiry
  /\ strikeRange = 0 /\ chainOp = "" /\ maxpain = 0
  /\ oc = NoCompiled /\ filtered = NoFiltered

PainNext ==
  \/ \E d \in ExpiryDateArgs : CalcMaxPain(d)
  \/ \E e \in ExpiryStrings : CalcMaxPainV3(e)

SpecPain == InitPain /\ [][PainNext]_vars

\* the sum of f[x] over the elements x of the finite set S
RECURSIVE SumOver(_, _)
SumOver(S, f) ==
  IF S = {} THEN 0
  ELSE LET x == CHOOSE y \in S : TRUE IN f[x] + SumOver(S \ {x}, f)

\* the rows of the target expiry, and the open interest of their legs
TargetRows == {i \in 1..Len(chain) : chain[i].expiry = expiry}
callOI(i) == IF chain[i].CE = NoLeg THEN 0 ELSE chain[i].CE
putOI(i) == IF chain[i].PE = NoLeg THEN 0 ELSE chain[i].PE

\* pain(K) = -sum over rows S<K of (K-S)*callOI(S)
\*           -sum over rows S>K of (S-K)*putOI(S), rows of the target expiry
ClaimedPain(K) ==
  - SumOver({i \in TargetRows : chain[i].strikePrice < K},
            [i \in TargetRows |-> (K - chain[i].strikePrice) * callOI(i)])
  - SumOver({i \in TargetRows : chain[i].strikePrice > K},
            [i \in TargetRows |-> (chain[i].strikePrice - K) * putOI(i)])

\* a max-pain function was applied to a chain of the schema it reads that
\* has a row of the target expiry
MaxPainApplied ==
  /\ chainOp \in {"calculateMaxPain", "calculateMaxPainV3"}
  /\ chainOp = "calculateMaxPainV3" => schema = "expiryDates"
  /\ TargetRows # {}

\* C11: calculateMaxPain / calculateMaxPainV3 return a strike that occurs in
\* a row of the target expiry and whose pain is at least the pain of every
\* other strike of that expiry, rows of other expiries contributing nothing;
\* for strikes 100/110/120 with CE OI 10/5/0 and PE OI 0/5/15 it is 110.
MaxPainIsMaximal ==
  MaxPainApplied =>
    /\ \E i \in TargetRows : chain[i].strikePrice = maxpain
    /\ \A j \in TargetRows :
         ClaimedPain(maxpain) >= ClaimedPain(chain[j].strikePrice)
    /\ chain = ExampleChain => maxpain = 110

\* C11 witness: three rows, two of the target expiry with different pain, the
\* third of another expiry with open interest that would have changed the
\* pain of the strike returned
MaxPainIsMaximalWitness ==
  /\ MaxPainApplied
  /\ Len(chain) = 3
  /\ \E i \in TargetRows, j \in TargetRows :
       ClaimedPain(chain[i].strikePrice) # ClaimedPain(chain[j].strikePrice)
  /\ \E k \in 1..Len(chain) :
       /\ k \notin TargetRows
       /\ \/ chain[k].strikePrice < maxpain /\ callOI(k) > 0
          \/ chain[k].strikePrice > maxpain /\ putOI(k) > 0

\* C12: when several strikes tie for the maximum pain, the strike returned
\* is the one of the tied row that comes first in the input row order.
MaxPainTieFirstInInput ==
  MaxPainApplied =>
    LET best == {i \in TargetRows :
                   \A j \in TargetRows : ClaimedPain(chain[i].strikePrice)
                                           >= ClaimedPain(chain[j].strikePrice)}
        first == CHOOSE i \in best : \A j \in best : i <= j
    IN  maxpain = chain[first].strikePrice

(***************************************************************************)
(* Option chain: the compiled chain.  Of a leg only the open interest is   *)
(* kept; last price, change and implied volatility are copied unchanged.   *)
(***************************************************************************)
Underlyings == {105, 125}
CompileLegs == {<<NoLeg, 0>>, <<0, 1>>, <<1, 3>>, <<3, NoLeg>>}
CompileRows == {Row(k, <<30, "Dec", 2025>>, l[1], l[2]) : k \in StrikePrices,
                                                         l \in CompileLegs}

\* Math.floor(a / b) for b # 0
MathFloor(a, b) == IF b > 0 THEN a \div b ELSE (-a) \div (-b)

\* the nearest integer below instead of the nearest integer
MathRoundDown(a, b) == MathFloor(a, b)

\* Math.round(a / b) for b # 0: floor(a / b + 1/2)
MathRound(a, b) == MathFloor(2 * a + b, 2 * b)

\* Number((p / c).toFixed(2)) for c > 0, in hundredths
ToFixed2(p, c) == Num(MathRound(100 * p, c))

\* [...new Set(q)]: the distinct elements of q in order of first occurrence
RECURSIVE Distinct(_)
Distinct(q) ==
  IF q = <<>> THEN <<>>
  ELSE LET front == Distinct(SubSeq(q, 1, Len(q) - 1))
           x == q[Len(q)]
       IN  IF \E i \in 1..Len(front) : front[i] = x THEN front
           ELSE Append(front, x)

\* [...].sort((a, b) => a - b)
SortNumbers(q) == StableSort(q, q)

\* strikes.length > 1 ? strikes[1] - strikes[0] : 50
StrikeInterval(strikes) ==
  IF Len(strikes) > 1 THEN strikes[2] - strikes[1] ELSE 50

\* a later row with the same open interest replaces the maximum
IsNewMaxLoose(oi, max) == oi >= max

\* `if (poi > maxPoi)`, `if (coi > maxCoi)`
IsNewMax(oi, max) == oi > max

\* only a zero call open interest yields null
StrikePcrCallOnly(poi, coi) == IF coi = 0 THEN Null ELSE ToFixed2(poi, coi)

\* poi === 0 || coi === 0 ? null : Number((poi / coi).toFixed(2))
StrikePcr(poi, coi) == IF poi = 0 \/ coi = 0 THEN Null ELSE ToFixed2(poi, coi)

NoTotals == [maxCoi |-> 0, maxPoi |-> 0, totalCoi |-> 0, totalPoi |-> 0,
             maxCoiStrike |-> 0, maxPoiStrike |-> 0, chain |-> <<>>]

\* one pass of the loop over records.data, for the row x
CompileRow(acc, x) ==
  LET strike == x.strikePrice
      poi == IF x.PE # NoLeg THEN x.PE ELSE 0
      coi == IF x.CE # NoLeg THEN x.CE ELSE 0
      newPoi == x.PE # NoLeg /\ IsNewMax(poi, acc.maxPoi)
      newCoi == x.CE # NoLeg /\ IsNewMax(coi, acc.maxCoi)
      entry == [pe |-> [oi |-> poi], ce |-> [oi |-> coi], pcr |-> StrikePcr(poi, coi)]
  IN  [maxPoi |-> IF newPoi THEN poi ELSE acc.maxPoi,
       maxPoiStrike |-> IF newPoi THEN strike ELSE acc.maxPoiStrike,
       maxCoi |-> IF newCoi THEN coi ELSE acc.maxCoi,
       maxCoiStrike |-> IF newCoi THEN strike ELSE acc.maxCoiStrike,
       totalPoi |-> acc.totalPoi + poi,
       totalCoi |-> acc.totalCoi + coi,
       chain |-> [k \in (DOMAIN acc.chain) \cup {strike} |->
                    IF k = strike THEN entry ELSE acc.chain[k]]]

\* the loop over the rows that are processed
RECURSIVE CompileLoop(_, _)
CompileLoop(acc, rows) ==
  IF rows = <<>> THEN acc ELSE CompileLoop(CompileRow(acc, Head(rows)), Tail(rows))

StrikesOf(data) == [i \in 1..Len(data) |-> data[i].strikePrice]

\* compileOptionChainV3(symbol, expiry) once the chain has been fetched
compileOptionChainV3(sch, data, u, e) ==
  LET strikes == SortNumbers(Distinct(StrikesOf(data)))
      multiple == StrikeInterval(strikes)
      t == CompileLoop(NoTotals, data)
  IN  [some |-> TRUE,
       atm |-> Num(multiple * MathRound(u, multiple)),
       maxpain |-> calculateMaxPainV3(sch, data, e),
       maxCoi |-> t.maxCoiStrike, maxPoi |-> t.maxPoiStrike,
       coiTotal |-> t.totalCoi, poiTotal |-> t.totalPoi,
       pcr |-> IF t.totalCoi > 0 THEN ToFixed2(t.totalPoi, t.totalCoi) ELSE Num(0),
       chain |-> t.chain]

\* `[0]` of an empty array
NoStrike == -1

\* `x.expiryDate` of a row
expiryDateOf(sch, x) == IF sch = "expiryDate" THEN x.expiry ELSE Undefined

\* the earlier calculateMaxPain: it reads `expiryDate` only and has no `|| 0`
calculateMaxPainLegacy(sch, data, d) ==
  LET matches == [i \in 1..Len(data) |-> expiryDateOf(sch, data[i]) = formatDateExpiry(d)]
  IN  IF \E i \in 1..Len(data) : matches[i] THEN MaxPainOf(data, matches)
      ELSE NoStrike

\* the rows of `data` that pass the test of q
RECURSIVE Filter(_, _)
Filter(data, keep) ==
  IF data = <<>> THEN <<>>
  ELSE LET rest == Filter(SubSeq(data, 1, Len(data) - 1),
                          SubSeq(keep, 1, Len(data) - 1))
       IN  IF keep[Len(data)] THEN Append(rest, data[Len(data)]) ELSE rest

\* the earlier compileOptionChain(symbol, expiryDate) once the chain has been
\* fetched; `filtered.data` holds the rows of the chain
compileOptionChainLegacy(sch, data, u, d) ==
  IF Len(data) < 2 THEN NoCompiled
  ELSE
    LET expiryDateStr == formatDateExpiry(d)
        multiple == data[1].strikePrice - data[2].strikePrice
        rows == Filter(data, [i \in 1..Len(data) |->
                                expiryDateOf(sch, data[i]) = expiryDateStr])
        t == CompileLoop(NoTotals, rows)
    IN  [some |-> TRUE,
         atm |-> IF multiple = 0 THEN NaN ELSE Num(multiple * MathRound(u, multiple)),
         maxpain |-> calculateMaxPainLegacy(sch, data, d),
         maxCoi |-> t.maxCoiStrike, maxPoi |-> t.maxPoiStrike,
         coiTotal |-> t.totalCoi, poiTotal |-> t.totalPoi,
         pcr |-> IF t.totalCoi # 0 THEN ToFixed2(t.totalPoi, t.totalCoi)
                 ELSE IF t.totalPoi = 0 THEN NaN ELSE Infinity,
         chain |-> t.chain]

Compiled(op, u, d, e, value) ==
  /\ chainOp = ""
  /\ chainOp' = op
  /\ underlying' = u
  /\ expiryDate' = d
  /\ expiry' = e
  /\ oc' = value
  /\ UNCHANGED <<schema, chain, strikeRange, maxpain, filtered>>
  /\ UNCHANGED <<throttleVars, sessionVars, splitVars, apiVars, optVars,
                 marketVars, parserVars>>

\* compileOptionChainV3(symbol, expiry)
CompileOptionChainV3(u, e) ==
  Compiled("compileOptionChainV3", u, NoDate, e,
           compileOptionChainV3(schema, chain, u, e))

\* compileOptionChain(symbol, expiryDate): formats the date and delegates
CompileOptionChain(u, d) ==
  Compiled("compileOptionChain", u, d, formatDateExpiry(d),
           compileOptionChainV3(schema, chain, u, formatDateExpiry(d)))

\* the earlier compileOptionChain(symbol, expiryDate)
CompileOptionChainLegacy(u, d) ==
  Compiled("compileOptionChainLegacy", u, d, formatDateExpiry(d),
           compileOptionChainLegacy(schema, chain, u, d))

InitCompile ==
  /\ ThrottleInit({}) /\ SessionIdle /\ SplitIdle /\ ApiIdle
  /\ OptIdle /\ MarketIdle /\ ParserIdle
  /\ schema \in Schemas
  /\ chain \in SeqsUpTo(CompileRows, MaxChainRows)
  /\ underlying = 0 /\ expiryDate = NoDate /\ expiry = NoExpiry
  /\ strikeRange = 0 /\ chainOp = "" /\ maxpain = 0
  /\ oc = NoCompiled /\ filtered = NoFiltered

CompileNext ==
  \/ \E u \in Underlyings, e \in ExpiryStrings : CompileOptionChainV3(u, e)
  \/ \E u \in Underlyings, d \in ExpiryDateArgs : CompileOptionChain(u, d)
  \/ \E u \in Underlyings, d \in ExpiryDateArgs : CompileOptionChainLegacy(u, d)

SpecCompile == InitCompile /\ [][CompileNext]_vars

\* the rows the compiler has processed: all rows on the v3 path, the rows of
\* the target expiry on the earlier path
ProcessedRows ==
  IF chainOp = "compileOptionChainLegacy"
  THEN {i \in 1..Len(chain) : schema = "expiryDate" /\ chain[i].expiry = expiry}
  ELSE 1..Len(chain)

\* C13: a compiled chain whose total call open interest is zero has
\* chain-level pcr 0, on the earlier compileOptionChain path as on the
\* compileOptionChainV3 path; otherwise pcr is poiTotal / coiTotal rounded to
\* two decimals; it is never NaN or Infinity.
ChainPcrGuard ==
  oc.some =>
    /\ oc.pcr.kind = "number"
    /\ oc.coiTotal = 0 => oc.pcr = Num(0)
    /\ oc.coiTotal # 0 =>
         \E h \in 0..(100 * oc.poiTotal) :
           /\ oc.pcr = Num(h)
           /\ 2 * oc.coiTotal * h <= 200 * oc.poiTotal + oc.coiTotal
           /\ 200 * oc.poiTotal - oc.coiTotal < 2 * oc.coiTotal * h

\* p / c rounded to two decimals, in hundredths (a tie rounds up)
IsRounded2(h, p, c) ==
  /\ 2 * c * h <= 200 * p + c
  /\ 200 * p - c < 2 * c * h

\* the processed row i is the last one of its strike: it wrote the entry
WroteEntry(i) ==
  /\ i \in ProcessedRows
  /\ \A j \in ProcessedRows : chain[j].strikePrice = chain[i].strikePrice => j <= i

\* C14: in a compiled chain the per-strike pcr of a row is null whenever the
\* row's call or put open interest is zero (a missing leg included), and
\* poi / coi rounded to two decimals otherwise; it is never NaN or Infinity.
StrikePcrGuard ==
  oc.some =>
    \A i \in 1..Len(chain) :
      WroteEntry(i) =>
        LET entry == oc.chain[chain[i].strikePrice]
        IN  /\ entry.pcr.kind \in {"null", "number"}
            /\ (callOI(i) = 0 \/ putOI(i) = 0) => entry.pcr = Null
            /\ (callOI(i) # 0 /\ putOI(i) # 0) =>
                 /\ entry.pcr.kind = "number"
                 /\ IsRounded2(entry.pcr.v, putOI(i), callOI(i))

\* C14 witness: a chain compiled with one row that lacks the put leg and has
\* call open interest, and one row with both legs open
StrikePcrGuardWitness ==
  /\ oc.some
  /\ chainOp = "compileOptionChainV3"
  /\ \E i \in 1..Len(chain), j \in 1..Len(chain) :
       /\ WroteEntry(i) /\ chain[i].PE = NoLeg /\ callOI(i) > 0
       /\ oc.chain[chain[i].strikePrice].pcr = Null
       /\ WroteEntry(j) /\ callOI(j) > 0 /\ putOI(j) > 0
       /\ oc.chain[chain[j].strikePrice].pcr = Num(300)

CompiledV3 == oc.some /\ chainOp \in {"compileOptionChainV3", "compileOptionChain"}

\* the strike of the first row whose open interest f[i] is the largest, 0
\* when every open interest is zero
FirstLargest(f) ==
  IF \A i \in 1..Len(chain) : f[i] = 0 THEN 0
  ELSE LET i == CHOOSE i \in 1..Len(chain) :
                  /\ \A j \in 1..Len(chain) : f[j] <= f[i]
                  /\ \A j \in 1..(i - 1) : f[j] < f[i]
       IN  chain[i].strikePrice

\* C15: compileOptionChainV3 reports coiTotal and poiTotal equal to the sums
\* of call and put open interest over the rows, and maxCoi / maxPoi equal to
\* the strike of the row with the largest call / put open interest, the first
\* such row in input order winning ties, and 0 when every one is zero.
TotalsAndMaxima ==
  CompiledV3 =>
    /\ oc.coiTotal = SumOver(1..Len(chain), [i \in 1..Len(chain) |-> callOI(i)])
    /\ oc.poiTotal = SumOver(1..Len(chain), [i \in 1..Len(chain) |-> putOI(i)])
    /\ oc.maxCoi = FirstLargest([i \in 1..Len(chain) |-> callOI(i)])
    /\ oc.maxPoi = FirstLargest([i \in 1..Len(chain) |-> putOI(i)])

\* C15 witness: two rows of different strikes tie for the largest call open
\* interest and the strike of the earlier one is reported
TotalsAndMaximaWitness ==
  /\ CompiledV3
  /\ \E i \in 1..Len(chain), j \in 1..Len(chain) :
       /\ i < j
       /\ chain[i].strikePrice # chain[j].strikePrice
       /\ callOI(i) = callOI(j) /\ callOI(i) > 0
       /\ \A k \in 1..Len(chain) : callOI(k) <= callOI(i)
       /\ oc.maxCoi = chain[i].strikePrice
  /\ oc.poiTotal > 0

\* the difference between the two smallest distinct strikes of the rows, 50
\* when there are fewer than two
ClaimedInterval ==
  LET S == {chain[i].strikePrice : i \in 1..Len(chain)}
  IN  IF Cardinality(S) < 2 THEN 50
      ELSE LET lo == CHOOSE x \in S : \A y \in S : x <= y
               nx == CHOOSE x \in S \ {lo} : \A y \in S \ {lo} : x <= y
           IN  nx - lo

\* C16: compileOptionChainV3 sets atm = interval * round(underlying /
\* interval), interval being the difference between the two smallest distinct
\* strikes of the rows, or 50 when there are fewer than two; hence atm is a
\* multiple of interval and |atm - underlying| <= interval / 2.
AtmNearestMultiple ==
  CompiledV3 =>
    /\ oc.atm.kind = "number"
    /\ oc.atm.v % ClaimedInterval = 0
    /\ 2 * (oc.atm.v - underlying) <= ClaimedInterval
    /\ 2 * (underlying - oc.atm.v) < ClaimedInterval

\* C16 witness: the underlying lies halfway between two multiples of an
\* interval inferred from the strikes, and atm is the upper one
AtmNearestMultipleWitness ==
  /\ CompiledV3
  /\ Cardinality({chain[i].strikePrice : i \in 1..Len(chain)}) >= 2
  /\ chain[1].strikePrice > chain[2].strikePrice
  /\ 2 * (oc.atm.v - underlying) = ClaimedInterval

(***************************************************************************)
(* Option chain: the filtered view.                                        *)
(***************************************************************************)
FilterStrikes == {100, 110, 130, 150}
FilterLegs == {<<NoLeg, 1>>, <<1, 1>>}
FilterRows == {Row(k, <<30, "Dec", 2025>>, l[1], l[2]) : k \in FilterStrikes,
                                                        l \in FilterLegs}
FilterUnderlyings == {104, 105, 131}
StrikeRanges == {0, 1, 2}

Abs(x) == IF x < 0 THEN -x ELSE x

\* uniqueStrikes.reduce((prev, curr) =>
\*   Math.abs(curr - underlying) < Math.abs(prev - underlying) ? curr : prev)
RECURSIVE Nearest(_, _)
Nearest(q, u) ==
  IF Len(q) = 1 THEN q[1]
  ELSE LET prev == Nearest(SubSeq(q, 1, Len(q) - 1), u)
           curr == q[Len(q)]
       IN  IF Abs(curr - u) < Abs(prev - u) THEN curr ELSE prev

\* the upper end of the window is excluded
InWindowOpen(k, minStrike, maxStrike) == k >= minStrike /\ k < maxStrike

\* item.strikePrice >= minStrike && item.strikePrice <= maxStrike
InWindow(k, minStrike, maxStrike) == k >= minStrike /\ k <= maxStrike

\* getFilteredOptionChainV3(symbol, expiry, strikeRange) once the chain has
\* been fetched; reduce throws on an empty array
getFilteredOptionChainV3(data, u, n) ==
  IF data = <<>> THEN NoFiltered
  ELSE
    LET uniqueStrikes == Distinct(StrikesOf(data))
        atmStrike == Nearest(uniqueStrikes, u)
        sortedStrikes == SortNumbers(uniqueStrikes)
        strikeInterval == StrikeInterval(sortedStrikes)
        minStrike == atmStrike - (n * strikeInterval)
        maxStrike == atmStrike + (n * strikeInterval)
        filteredData == Filter(data, [i \in 1..Len(data) |->
                                        InWindow(data[i].strikePrice, minStrike, maxStrike)])
    IN  [some |-> TRUE, atmStrike |-> atmStrike,
         minStrike |-> minStrike, maxStrike |-> maxStrike,
         totalStrikes |-> Len(filteredData), data |-> filteredData]

GetFilteredOptionChainV3(u, n) ==
  /\ chainOp = ""
  /\ chainOp' = "getFilteredOptionChainV3"
  /\ underlying' = u
  /\ strikeRange' = n
  /\ filtered' = getFilteredOptionChainV3(chain, u, n)
  /\ UNCHANGED <<schema, chain, expiryDate, expiry, maxpain, oc>>
  /\ UNCHANGED <<throttleVars, sessionVars, splitVars, apiVars, optVars,
                 marketVars, parserVars>>

InitFilter ==
  /\ ThrottleInit({}) /\ SessionIdle /\ SplitIdle /\ ApiIdle
  /\ OptIdle /\ MarketIdle /\ ParserIdle
  /\ schema = "expiryDates"
  /\ chain \in SeqsUpTo(FilterRows, MaxChainRows)
  /\ underlying = 0 /\ expiryDate = NoDate /\ expiry = NoExpiry
  /\ strikeRange = 0 /\ chainOp = "" /\ maxpain = 0
  /\ oc = NoCompiled /\ filtered = NoFiltered

FilterNext == \E u \in FilterUnderlyings, n \in StrikeRanges : GetFilteredOptionChainV3(u, n)

SpecFilter == InitFilter /\ [][FilterNext]_vars

\* the rows of the chain whose strike is within w of the strike a, in order
RowsWithin(a, w) ==
  LET Inside(x) == Abs(x.strikePrice - a) <= w
  IN  SelectSeq(chain, Inside)

\* C17: getFilteredOptionChainV3(symbol, expiry, N) resolves atmStrike as the
\* listed strike nearest to the underlying and returns exactly the rows whose
\* strike lies in [atmStrike - N*interval, atmStrike + N*interval], none
\* outside it and all inside it; totalStrikes is the number of rows returned.
FilteredWindow ==
  filtered.some =>
    /\ \E i \in 1..Len(chain) : chain[i].strikePrice = filtered.atmStrike
    /\ \A i \in 1..Len(chain) :
         Abs(filtered.atmStrike - underlying) <= Abs(chain[i].strikePrice - underlying)
    /\ filtered.data = RowsWithin(filtered.atmStrike, strikeRange * ClaimedInterval)
    /\ filtered.totalStrikes = Len(filtered.data)

\* C17 witness: a window of one interval around atmStrike that has a row on
\* its upper edge and leaves a row of the chain out
FilteredWindowWitness ==
  /\ filtered.some
  /\ strikeRange = 1
  /\ filtered.totalStrikes < Len(chain)
  /\ \E i \in 1..Len(filtered.data) :
       filtered.data[i].strikePrice = filtered.atmStrike + ClaimedInterval

(***************************************************************************)
(* Option chain: expiry resolution of getOptionChain / getOptionChainV3.   *)
(***************************************************************************)
MaxExpiries == 3

ListedExpiries == ExpiryStrings \cup {<<13, "Jan", 2026>>}
MonthNames == <<"Jan", "Feb", "Mar", "Apr", "May", "Jun", "Jul", "Aug", "Sep",
                "Oct", "Nov", "Dec">>

\* new Date(a.replace(/-/g, " ")).getTime(), in days on a 31-day-month scale
ExpiryTime(a) ==
  LET month == CHOOSE m \in 1..12 : MonthNames[m] = a[2]
  IN  (a[3] * 12 + month) * 31 + a[1]

ContractInfoUrl == "option-chain-contract-info"
OptionChainV3Url == "option-chain-v3"

\* the bodies of the contract-info response: an expiryDates array, or an
\* expiryDates list under records, or neither
ContractInfos ==
  {[expiryDates |-> q, hasExpiryDates |-> TRUE, records |-> <<>>,
    hasRecords |-> FALSE] : q \in SeqsUpTo(ListedExpiries, MaxExpiries)}
  \cup {[expiryDates |-> <<>>, hasExpiryDates |-> FALSE, records |-> q,
         hasRecords |-> TRUE] : q \in SeqsUpTo(ListedExpiries, MaxExpiries) \ {<<>>}}
  \cup {NoContractInfo}

\* getExpiryDatesV3(symbol) once the contract info has been fetched
getExpiryDatesV3(ci) ==
  IF ci.hasExpiryDates
  THEN StableSort(ci.expiryDates,
                  [i \in 1..Len(ci.expiryDates) |-> ExpiryTime(ci.expiryDates[i])])
  ELSE IF ci.hasRecords THEN ci.records
  ELSE <<>>

OptRequest(u, e) == [url |-> u, expiry |-> e]

\* getOptionChain(symbol): up to the request for the contract info
GetOptionChain ==
  /\ optState = "idle"
  /\ optCall' = "getOptionChain"
  /\ optExpiry' = NoExpiry
  /\ optLog' = Append(optLog, OptRequest(ContractInfoUrl, NoExpiry))
  /\ optState' = "awaitingExpiries"
  /\ UNCHANGED <<contractInfo, expiries, optError>>
  /\ UNCHANGED <<throttleVars, sessionVars, splitVars, apiVars, chainVars,
                 marketVars, parserVars>>

\* getOptionChainV3({symbol, expiry}): with an expiry the chain is requested
\* at once, without one the contract info is requested first
GetOptionChainV3(e) ==
  /\ optState = "idle"
  /\ optCall' = "getOptionChainV3"
  /\ optExpiry' = e
  /\ IF e = NoExpiry
     THEN /\ optLog' = Append(optLog, OptRequest(ContractInfoUrl, NoExpiry))
          /\ optState' = "awaitingExpiries"
     ELSE /\ optLog' = Append(optLog, OptRequest(OptionChainV3Url, e))
          /\ optState' = "awaitingChain"
  /\ UNCHANGED <<contractInfo, expiries, optError>>
  /\ UNCHANGED <<throttleVars, sessionVars, splitVars, apiVars, chainVars,
                 marketVars, parserVars>>

\* the contract info arrives: an empty expiry list makes the call throw,
\* otherwise the chain is requested for expiries[0]
ContractInfoResolves(ci) ==
  /\ optState = "awaitingExpiries"
  /\ contractInfo' = ci
  /\ expiries' = getExpiryDatesV3(ci)
  /\ IF Len(getExpiryDatesV3(ci)) = 0
     THEN /\ optState' = "thrown"
          /\ optError' = "NoExpiry"
          /\ UNCHANGED optLog
     ELSE /\ optLog' = Append(optLog, OptRequest(OptionChainV3Url, getExpiryDatesV3(ci)[1]))
          /\ optState' = "awaitingChain"
          /\ UNCHANGED optError
  /\ UNCHANGED <<optCall, optExpiry>>
  /\ UNCHANGED <<throttleVars, sessionVars, splitVars, apiVars, chainVars,
                 marketVars, parserVars>>

\* the awaited request rejects: the error propagates to the caller
OptRequestRejects ==
  /\ optState \in {"awaitingExpiries", "awaitingChain"}
  /\ optState' = "thrown"
  /\ optError' = "Http"
  /\ UNCHANGED <<optCall, optExpiry, contractInfo, expiries, optLog>>
  /\ UNCHANGED <<throttleVars, sessionVars, splitVars, apiVars, chainVars,
                 marketVars, parserVars>>

\* the option chain arrives and is returned
OptionChainResolves ==
  /\ optState = "awaitingChain"
  /\ optState' = "returned"
  /\ UNCHANGED <<optCall, optExpiry, contractInfo, expiries, optLog, optError>>
  /\ UNCHANGED <<throttleVars, sessionVars, splitVars, apiVars, chainVars,
                 marketVars, parserVars>>

InitExpiry ==
  /\ ThrottleInit({}) /\ SessionIdle /\ SplitIdle /\ ApiIdle
  /\ ChainIdle /\ OptIdle /\ MarketIdle /\ ParserIdle

ExpiryNext ==
  \/ GetOptionChain
  \/ \E e \in ListedExpiries \cup {NoExpiry} : GetOptionChainV3(e)
  \/ \E ci \in ContractInfos : ContractInfoResolves(ci)
  \/ OptRequestRejects
  \/ OptionChainResolves

SpecExpiry == InitExpiry /\ [][ExpiryNext]_vars

\* the expiry a is not later than the expiry b by calendar date
NotLater(a, b) ==
  LET ma == CHOOSE m \in 1..12 : MonthNames[m] = a[2]
      mb == CHOOSE m \in 1..12 : MonthNames[m] = b[2]
  IN  \/ a[3] < b[3]
      \/ a[3] = b[3] /\ ma < mb
      \/ a[3] = b[3] /\ ma = mb /\ a[1] <= b[1]

\* the expiry list the upstream supplied
SuppliedExpiries ==
  IF contractInfo.hasExpiryDates THEN contractInfo.expiryDates
  ELSE IF contractInfo.hasRecords THEN contractInfo.records
  ELSE <<>>

\* C18: when no expiry is supplied to getOptionChain / getOptionChainV3, the
\* expiry list is fetched first and the option chain is requested with the
\* earliest expiry by calendar date; an empty expiry list makes the call fail
\* with a no-expiry error without an option-chain request.
EarliestExpiryRequested ==
  (optState # "idle" /\ optExpiry = NoExpiry) =>
    /\ optLog[1].url = ContractInfoUrl
    /\ \A i \in 1..Len(optLog) :
         optLog[i].url = OptionChainV3Url =>
           /\ i = 2
           /\ \E k \in 1..Len(SuppliedExpiries) : SuppliedExpiries[k] = optLog[i].expiry
           /\ \A k \in 1..Len(SuppliedExpiries) :
                NotLater(optLog[i].expiry, SuppliedExpiries[k])
    /\ (optState # "awaitingExpiries" /\ optError # "Http" /\ SuppliedExpiries = <<>>) =>
         (optState = "thrown" /\ optError = "NoExpiry" /\ Len(optLog) = 1)

(***************************************************************************)
(* Market data: getGainers / getLosers.                                    *)
(***************************************************************************)
MaxMarketRows == 3

PChanges == {-5, -1, 0, 2, 3}
Counts == {NoCount, -1, 0, 1, 2}

\* the rows of data.data: the symbol of a row is its position in the input
MarketRows(q) == [i \in 1..Len(q) |-> [symbol |-> i, pChange |-> q[i]]]

\* the rows of the unit tests: symbols A, B, C, D
ExampleGainers == MarketRows(<<-1, 2, 5, 3>>)
ExampleLosers == MarketRows(<<-1, 2, -5, 3>>)

\* q.slice(0, n)
Slice0(q, n) ==
  LET end == IF n < 0 THEN (IF Len(q) + n < 0 THEN 0 ELSE Len(q) + n)
             ELSE IF n > Len(q) THEN Len(q) ELSE n
  IN  SubSeq(q, 1, end)

\* a row without change counts as a gainer
IsGainerOrFlat(d) == d.pChange >= 0

\* (d) => d.pChange > 0 and (d) => d.pChange < 0
IsGainer(d) == d.pChange > 0
IsLoser(d) == d.pChange < 0

\* typeof count === "number" ? filtered.slice(0, count) : filtered
Limit(q, c) == IF c # NoCount THEN Slice0(q, c) ELSE q

\* getGainers(data, count)
getGainers(data, c) ==
  LET kept == Filter(data, [i \in 1..Len(data) |-> IsGainer(data[i])])
  IN  Limit(StableSort(kept, [i \in 1..Len(kept) |-> -kept[i].pChange]), c)

\* getLosers(data, count)
getLosers(data, c) ==
  LET kept == Filter(data, [i \in 1..Len(data) |-> IsLoser(data[i])])
  IN  Limit(StableSort(kept, [i \in 1..Len(kept) |-> kept[i].pChange]), c)

GetGainers(c) ==
  /\ marketOp = ""
  /\ marketOp' = "getGainers"
  /\ count' = c
  /\ marketOut' = getGainers(marketData, c)
  /\ UNCHANGED marketData
  /\ UNCHANGED <<throttleVars, sessionVars, splitVars, apiVars, chainVars,
                 optVars, parserVars>>

GetLosers(c) ==
  /\ marketOp = ""
  /\ marketOp' = "getLosers"
  /\ count' = c
  /\ marketOut' = getLosers(marketData, c)
  /\ UNCHANGED marketData
  /\ UNCHANGED <<throttleVars, sessionVars, splitVars, apiVars, chainVars,
                 optVars, parserVars>>

InitMarket ==
  /\ ThrottleInit({}) /\ SessionIdle /\ SplitIdle /\ ApiIdle
  /\ ChainIdle /\ OptIdle /\ ParserIdle
  /\ marketData \in {MarketRows(q) : q \in SeqsUpTo(PChanges, MaxMarketRows)}
                      \cup {ExampleGainers, ExampleLosers}
  /\ count = NoCount /\ marketOp = "" /\ marketOut = <<>>

MarketNext ==
  \/ \E c \in Counts : GetGainers(c)
  \/ \E c \in Counts : GetLosers(c)

SpecMarket == InitMarket /\ [][MarketNext]_vars

\* the rows of the input that qualify for the function that was applied, and
\* its order: larger change first for gainers, smaller first for losers
Qualifies(d) == IF marketOp = "getGainers" THEN d.pChange > 0 ELSE d.pChange < 0
RanksBefore(a, b) == IF marketOp = "getGainers" THEN a.pChange >= b.pChange
                     ELSE a.pChange <= b.pChange
Qualifying == {marketData[i] : i \in {j \in 1..Len(marketData) : Qualifies(marketData[j])}}
Returned == {marketOut[i] : i \in 1..Len(marketOut)}

\* C19: getGainers returns exactly the rows with pChange > 0 by descending
\* pChange, getLosers exactly the rows with pChange < 0 by ascending pChange,
\* each truncated to the first count rows when a count is given; a row with
\* pChange = 0 is in neither result.
GainersLosersSorted ==
  (marketOp # "" /\ (count = NoCount \/ count >= 0)) =>
    /\ Returned \subseteq Qualifying
    /\ Cardinality(Returned) = Len(marketOut)
    /\ \A i \in 1..Len(marketOut), j \in 1..Len(marketOut) :
         i < j => RanksBefore(marketOut[i], marketOut[j])
    /\ count = NoCount => Returned = Qualifying
    /\ count # NoCount =>
         /\ Len(marketOut) = Min(count, Cardinality(Qualifying))
         /\ \A d \in Qualifying \ Returned : \A r \in Returned : RanksBefore(r, d)
    /\ \A d \in Returned : d.pChange # 0
    /\ (marketData = ExampleGainers /\ marketOp = "getGainers" /\ count = 2) =>
         marketOut = <<[symbol |-> 3, pChange |-> 5], [symbol |-> 4, pChange |-> 3]>>
    /\ (marketData = ExampleLosers /\ marketOp = "getLosers" /\ count = 2) =>
         marketOut = <<[symbol |-> 3, pChange |-> -5], [symbol |-> 1, pChange |-> -1]>>

\* C19 witness: getGainers with a count that cuts off a gainer, on rows that
\* hold an unchanged row and gainers in ascending input order
GainersLosersSortedWitness ==
  /\ marketOp = "getGainers" /\ count = 1
  /\ Len(marketOut) = 1
  /\ Cardinality(Qualifying) = 2
  /\ \E i \in 1..Len(marketData) : marketData[i].pChange = 0
  /\ marketOut[1].symbol > 1

(***************************************************************************)
(* SymbolParser.  The parser inspects a fragment only for emptiness and    *)
(* for spaces, so a fragment is the sequence of its space-separated words, *)
(* and the words fed are all different: each is named by the feed call,    *)
(* the anchor and its position in the anchor's text.                       *)
(***************************************************************************)
MaxFeeds == 2
MaxAnchors == 4

WordCounts == {0, 1, 2}

\* the text of anchor i of feed call k, holding n words
Fragment(k, i, n) == [j \in 1..n |-> <<k, i, j>>]

\* the anchors of feed call k, anchor i holding shape[i] words
Anchors(k, shape) == [i \in 1..Len(shape) |-> Fragment(k, i, shape[i])]

\* isin is taken before symbol
fieldsSwapped == <<"company_name", "isin", "symbol", "bse_code">>

\* private readonly fields
fields == <<"company_name", "symbol", "isin", "bse_code">>

\* no field is ever taken as present
IsPopulatedNever(res, field) ==
  FALSE

\* field in this.result
IsPopulated(res, field) ==
  res[field] # Absent

\* every fragment holding a space is split
ShouldSplitAlways(res, data) ==
  Len(data) > 1

\* 'company_name' in this.result && data.includes(' ')
ShouldSplit(res, data) ==
  IsPopulated(res, "company_name") /\ Len(data) > 1

\* only the first part of a split fragment is dispatched
RECURSIVE handleData(_, _), handleParts(_, _)
handlePartsFirst(st, parts) ==
  IF parts = <<>> THEN st ELSE handleData(st, <<Head(parts)>>)

\* handleData(data), and its loop over data.split(' ')
handleData(st, data) ==
  IF ~st.start \/ st.index >= Len(fields) THEN st
  ELSE LET field == fields[st.index + 1]
       IN  IF IsPopulated(st.result, field) THEN st
           ELSE IF ShouldSplit(st.result, data)
                THEN handleParts(st, data)
                ELSE [st EXCEPT !.result[field] = data, !.index = @ + 1]

handleParts(st, parts) ==
  IF parts = <<>> THEN st
  ELSE handleParts(handleData(st, <<Head(parts)>>), Tail(parts))

\* the loop of feed over the anchors
RECURSIVE feedAnchors(_, _)
feedAnchors(st, anchors) ==
  IF anchors = <<>> THEN st
  ELSE LET textContent == Head(anchors)
       IN  feedAnchors(IF textContent # <<>> THEN handleData(st, textContent) ELSE st,
                       Tail(anchors))

\* start and index are set even when the markup holds no anchor
feedAlwaysStarts(st, anchors) ==
  feedAnchors([st EXCEPT !.start = TRUE, !.index = 0], anchors)

\* feed(htmlString), the markup holding the given anchors
feed(st, anchors) ==
  IF Len(anchors) = 0 THEN st
  ELSE feedAnchors([st EXCEPT !.start = TRUE, !.index = 0], anchors)

\* null unless all four fields are set
getResultComplete(res) ==
  IF \E i \in 1..Len(fields) : ~IsPopulated(res, fields[i])
  THEN [called |-> TRUE, isNull |-> TRUE, value |-> EmptyResult]
  ELSE [called |-> TRUE, isNull |-> FALSE, value |-> res]

\* getResult(): null unless result.symbol is set
getResult(res) ==
  IF res.symbol = Absent
  THEN [called |-> TRUE, isNull |-> TRUE, value |-> EmptyResult]
  ELSE [called |-> TRUE, isNull |-> FALSE, value |-> res]

\* a newly constructed parser
NewParser == [result |-> EmptyResult, start |-> FALSE, index |-> 0]

\* the record is kept
resetDataKeepsResult(st) ==
  [result |-> st.result, start |-> FALSE, index |-> 0]

\* resetData()
resetData(st) ==
  [result |-> EmptyResult, start |-> FALSE, index |-> 0]

ParserState == [result |-> parserResult, start |-> start, index |-> index]

Feed(shape) ==
  /\ feeds < MaxFeeds
  /\ LET anchors == Anchors(feeds + 1, shape)
         st == feed(ParserState, anchors)
     IN  /\ parserResult' = st.result
         /\ start' = st.start
         /\ index' = st.index
         /\ lastFeed' = anchors
  /\ before' = parserResult
  /\ feeds' = feeds + 1
  /\ got' = NotCalled
  /\ lastOp' = "feed"
  /\ UNCHANGED <<throttleVars, sessionVars, splitVars, apiVars, chainVars,
                 optVars, marketVars>>

GetResult ==
  /\ lastOp # "getResult"
  /\ got' = getResult(parserResult)
  /\ lastOp' = "getResult"
  /\ UNCHANGED <<parserResult, start, index, feeds, lastFeed, before>>
  /\ UNCHANGED <<throttleVars, sessionVars, splitVars, apiVars, chainVars,
                 optVars, marketVars>>

ResetData ==
  /\ lastOp # "resetData"
  /\ LET st == resetData(ParserState)
     IN  /\ parserResult' = st.result
         /\ start' = st.start
         /\ index' = st.index
  /\ lastFeed' = <<>>
  /\ before' = parserResult
  /\ got' = NotCalled
  /\ lastOp' = "resetData"
  /\ UNCHANGED feeds
  /\ UNCHANGED <<throttleVars, sessionVars, splitVars, apiVars, chainVars,
                 optVars, marketVars>>

InitParser ==
  /\ ThrottleInit({}) /\ SessionIdle /\ SplitIdle /\ ApiIdle
  /\ ChainIdle /\ OptIdle /\ MarketIdle /\ ParserIdle

ParserNext ==
  \/ \E shape \in SeqsUpTo(WordCounts, MaxAnchors) : Feed(shape)
  \/ GetResult
  \/ ResetData

SpecParser == InitParser /\ [][ParserNext]_vars

\* the non-empty fragments of the last feed call
FedFragments == SelectSeq(lastFeed, LAMBDA f : f # <<>>)

\* C20: feeding a fresh SymbolParser four non-empty fragments f1..f4, of
\* which f2..f4 contain no spaces, yields the record {company_name: f1,
\* symbol: f2, isin: f3, bse_code: f4}.
FourFragmentsInOrder ==
  (/\ lastOp \in {"feed", "getResult"}
   /\ before = EmptyResult
   /\ Len(FedFragments) = 4
   /\ \A i \in 2..4 : Len(FedFragments[i]) = 1)
    => /\ parserResult = [company_name |-> FedFragments[1], symbol |-> FedFragments[2],
                          isin |-> FedFragments[3], bse_code |-> FedFragments[4]]
       /\ lastOp = "getResult" =>
            got = [called |-> TRUE, isNull |-> FALSE, value |-> parserResult]

\* C20 witness: a fresh parser was fed four fragments, the first of two
\* words, and getResult returned the record
FourFragmentsInOrderWitness ==
  /\ lastOp = "getResult" /\ ~got.isNull
  /\ before = EmptyResult
  /\ Len(FedFragments) = 4
  /\ Len(FedFragments[1]) = 2
  /\ \A i \in 2..4 : Len(FedFragments[i]) = 1
  /\ got.value.bse_code = FedFragments[4]

\* the non-empty fragments, each fragment that arrives once company_name is
\* populated replaced by its words as fragments of their own
RECURSIVE SplitFragments(_, _)
SplitFragments(named, anchors) ==
  IF anchors = <<>> THEN <<>>
  ELSE LET f == Head(anchors)
       IN  IF f = <<>> THEN SplitFragments(named, Tail(anchors))
           ELSE IF named
                THEN [j \in 1..Len(f) |-> <<f[j]>>] \o SplitFragments(TRUE, Tail(anchors))
                ELSE <<f>> \o SplitFragments(TRUE, Tail(anchors))

\* the parser as it was before the last feed call (feed sets start and index
\* itself before it dispatches anything)
BeforeFeed == [result |-> before, start |-> FALSE, index |-> 0]

\* C21: once company_name is populated, feeding a fragment that holds several
\* space-separated tokens produces the same record as feeding those tokens as
\* separate fragments in the same order.
SplitOnSpaceRecovery ==
  lastOp = "feed" =>
    parserResult =
      feed(BeforeFeed,
           SplitFragments(IsPopulated(before, "company_name"), lastFeed)).result

\* C21 witness: the feed held the company name, then a fragment of two tokens
\* that became symbol and isin, then the bse code
SplitOnSpaceRecoveryWitness ==
  /\ lastOp = "feed" /\ before = EmptyResult
  /\ Len(FedFragments) = 3
  /\ Len(FedFragments[2]) = 2
  /\ parserResult.symbol = <<FedFragments[2][1]>>
  /\ parserResult.isin = <<FedFragments[2][2]>>
  /\ parserResult.bse_code = FedFragments[3]

\* C22: getResult returns the record if and only if symbol is populated and
\* null otherwise; a record with symbol set is returned as it is, whatever
\* later fields are missing; getResult does not change the parser state.
GetResultIffSymbol ==
  [][lastOp' = "getResult" =>
       /\ UNCHANGED <<parserResult, start, index>>
       /\ got'.called
       /\ got'.isNull <=> parserResult.symbol = Absent
       /\ ~got'.isNull => got'.value = parserResult]_vars

\* C22 witness: getResult returned a record holding a symbol and no isin
GetResultIffSymbolWitness ==
  /\ lastOp = "getResult" /\ ~got.isNull
  /\ got.value.symbol # Absent
  /\ got.value.isin = Absent /\ got.value.bse_code = Absent

\* C23: resetData, called at any point, returns the parser to the state of a
\* newly constructed one: getResult is null immediately afterwards and a feed
\* call that follows produces what it produces on a new parser (the parser is
\* deterministic in its state, so the same holds of every later call).
ResetReturnsToEmpty ==
  [][lastOp = "resetData" =>
       /\ ParserState = NewParser
       /\ lastOp' = "getResult" => got'.isNull
       /\ lastOp' = "feed" => ParserState' = feed(NewParser, lastFeed')]_vars

\* C23 witness: resetData was called on a parser holding all four fields
ResetReturnsToEmptyWitness ==
  /\ lastOp = "resetData"
  /\ \A i \in 1..Len(fields) : IsPopulated(before, fields[i])
  /\ parserResult = EmptyResult

\* C24: across successive feed calls with no resetData in between a record is
\* built incrementally: a parser that holds only the company name and is fed
\* again takes the first token of that feed as its symbol.
IncrementalAcrossFeeds ==
  (/\ lastOp = "feed"
   /\ IsPopulated(before, "company_name") /\ ~IsPopulated(before, "symbol")
   /\ FedFragments # <<>>)
    => /\ parserResult.company_name = before.company_name
       /\ parserResult.symbol = <<FedFragments[1][1]>>

\* C25: while company_name is not populated a fragment is never split: the
\* first non-empty fragment is stored whole as company_name even when it
\* holds spaces, and it populates neither symbol nor any later field.
NameNeverSplit ==
  (/\ lastOp = "feed"
   /\ ~IsPopulated(before, "company_name")
   /\ FedFragments # <<>>)
    => /\ parserResult.company_name = FedFragments[1]
       /\ Len(FedFragments) = 1 =>
            \A i \in 2..Len(fields) : ~IsPopulated(parserResult, fields[i])

\* C25 witness: the only fragment fed to an empty parser held two words and
\* became the company name
NameNeverSplitWitness ==
  /\ lastOp = "feed" /\ before = EmptyResult
  /\ Len(FedFragments) = 1
  /\ Len(FedFragments[1]) = 2
  /\ parserResult.company_name = FedFragments[1]
  /\ parserResult.symbol = Absent

\* C26: a feed call whose markup holds no anchor leaves the parser state
\* unchanged, so getResult returns after the call what it returned before it,
\* on a fresh parser and on one that holds fields.
EmptyFeedIsNoOp ==
  [][(lastOp' = "feed" /\ lastFeed' = <<>>) =>
       /\ UNCHANGED <<parserResult, start, index>>
       /\ getResult(parserResult') = getResult(parserResult)]_vars

\* C26 witness: markup without anchors was fed to a parser holding a company
\* name and a symbol, which it still holds
EmptyFeedIsNoOpWitness ==
  /\ lastOp = "feed" /\ lastFeed = <<>>
  /\ IsPopulated(before, "symbol")
  /\ parserResult = before
  /\ index = 2

\* the field order of the record
ClaimedOrder == <<"company_name", "symbol", "isin", "bse_code">>

\* the populated fields are the first ones of the field order
PopulatedPrefix ==
  \A i \in 2..Len(ClaimedOrder) :
    parserResult[ClaimedOrder[i]] # Absent =>
      parserResult[ClaimedOrder[i - 1]] # Absent

\* a feed to an empty parser that holds four tokens or more populates the
\* fields from the first four and ignores the rest
LaterFragmentsIgnored ==
  LET tokens == SplitFragments(FALSE, lastFeed)
  IN  (lastOp = "feed" /\ before = EmptyResult /\ Len(tokens) >= 4) =>
        \A i \in 1..4 : parserResult[ClaimedOrder[i]] = tokens[i]

\* C27: in every reachable state the populated fields form a prefix of
\* (company_name, symbol, isin, bse_code), a populated field keeps its value
\* until resetData, and fragments that arrive after all four fields are
\* populated are ignored.
PrefixAndStable ==
  /\ [](PopulatedPrefix /\ LaterFragmentsIgnored)
  /\ [][lastOp' # "resetData" =>
          \A i \in 1..Len(ClaimedOrder) :
            parserResult[ClaimedOrder[i]] # Absent =>
              parserResult'[ClaimedOrder[i]] = parserResult[ClaimedOrder[i]]]_vars

\* C27 witness: fragments were fed to a parser holding all four fields, which
\* kept them
PrefixAndStableWitness ==
  /\ lastOp = "feed" /\ FedFragments # <<>>
  /\ \A i \in 1..Len(ClaimedOrder) : before[ClaimedOrder[i]] # Absent
  /\ parserResult = before

\* the timestamp of class c, by name
TimestampOf(c) == IF c = "lookup" THEN lastLookupRequest ELSE lastDefaultRequest

\* the other class
OtherClass(c) == IF c = "lookup" THEN "default" ELSE "lookup"

\* C28: throttle classes are independent: a check of one class writes only
\* the timestamp of its class, and whether and how long it waits depends only
\* on the timestamp of its class, so a call of one class never delays a later
\* call of the other class.
ClassesIndependent ==
  [][/\ \A c \in Classes :
          lastTicket'[c] # lastTicket[c] =>
            /\ TimestampOf(c)' = now'
            /\ TimestampOf(OtherClass(c))' = TimestampOf(OtherClass(c))
     /\ \A t \in Tasks :
          ticket'[t] # ticket[t] =>
            LET c == type'[t]
                due == TimestampOf(c) + throttleConfig[c].delay
            IN  IF now < due
                THEN pc'[t] = "waiting" /\ wakeAt'[t] = due
                ELSE pc'[t] = "idle" /\ done'[t] = done[t] + 1]_vars

\* C28 witness: right after a lookup check completed, the first default
\* check was called and completed without waiting, less than the lookup
\* interval later
ClassesIndependentWitness ==
  /\ lastTicket["lookup"] > 0
  /\ lastTicket["default"] > lastTicket["lookup"]
  /\ prevGrantAt["default"] = -1
  /\ lastDefaultRequest >= lastLookupRequest
  /\ lastDefaultRequest - lastLookupRequest < throttleConfig["lookup"].delay
  /\ \A t \in Tasks : pc[t] = "idle"

\* what the other max-pain function returns for the chain and the expiry of
\* the call that was made
OtherMaxPain ==
  IF chainOp = "calculateMaxPain"
  THEN {calculateMaxPainV3(schema, chain, formatDateExpiry(expiryDate))}
  ELSE {calculateMaxPain(schema, chain, d) :
          d \in {x \in ExpiryDateArgs : formatDateExpiry(x) = expiry}}

\* every row carries the target expiry, or none does
AllRowsMatch == TargetRows = 1..Len(chain)
NoRowMatches == TargetRows = {}

PainCallMade == chainOp \in {"calculateMaxPain", "calculateMaxPainV3"}

\* C29 as stated: for every chain whose rows carry the expiry under a single
\* key (expiryDates or expiryDate) equal to the formatted target expiry,
\* calculateMaxPain(chain, expiryDate) and calculateMaxPainV3(chain,
\* formatDateExpiry(expiryDate)) return the same strike; both return 0 when
\* no row matches the expiry.
MaxPainVariantsAgree ==
  PainCallMade =>
    /\ AllRowsMatch => OtherMaxPain = {maxpain}
    /\ NoRowMatches => OtherMaxPain = {0} /\ maxpain = 0

\* C29 amended: the two functions return the same strike for every chain
\* whose rows carry the expiry under the key expiryDates, equal to the
\* formatted target expiry; on rows that carry it under expiryDate
\* calculateMaxPainV3 matches no row and returns 0, whatever calculateMaxPain
\* returns; both return 0 when no row matches the expiry.
MaxPainVariantsAgreeOnV3 ==
  PainCallMade =>
    /\ (AllRowsMatch /\ schema = "expiryDates") => OtherMaxPain = {maxpain}
    /\ schema = "expiryDate" =>
         IF chainOp = "calculateMaxPainV3" THEN maxpain = 0
         ELSE OtherMaxPain = {0}
    /\ NoRowMatches => OtherMaxPain = {0} /\ maxpain = 0

\* C29 witness: calculateMaxPainV3 returned a strike for three rows keyed
\* expiryDates, all of the target expiry and not all of one strike
MaxPainVariantsAgreeOnV3Witness ==
  /\ chainOp = "calculateMaxPainV3" /\ schema = "expiryDates"
  /\ Len(chain) = 3 /\ AllRowsMatch
  /\ \E i, j \in 1..Len(chain) : chain[i].strikePrice # chain[j].strikePrice
  /\ OtherMaxPain = {maxpain}
  /\ maxpain # 0

\* a fetch that walks the chunks of a date range has issued a request
ChunkedFetch ==
  /\ endpoint \in HistoricalEndpoints \cup {PerSeriesEndpoint}
  /\ requestLog # <<>>
  /\ requestLog[1].from # NoDate

\* two requests of the fetch carry the same query but for the dates
SameQuery(a, b) == endpoint = PerSeriesEndpoint => a.series = b.series

\* the number of queries of the fetch: one per series, or one
NumQueries == IF endpoint = PerSeriesEndpoint THEN Len(opts.series) ELSE 1

\* the i-th request is for chunk k, where it is the k-th request of its query
InChunkOrder(i) ==
  LET k == Cardinality({j \in 1..i : SameQuery(requestLog[j], requestLog[i])})
  IN  /\ k <= Len(chunks)
      /\ requestLog[i].from = chunks[k][1] \div OneDay
      /\ requestLog[i].to = chunks[k][2] \div OneDay

\* what the k-th response, of n rows, adds to the rows returned
Contribution(k, n) ==
  IF endpoint = "fetchHistoricalVixData" \/ endpoint = "fetchHistoricalFnoData"
     \/ endpoint = "fetchHistoricalIndexData"
  THEN Rows(k, n)
  ELSE [j \in 1..n |-> Rows(k, n)[n + 1 - j]]

RECURSIVE Concatenated(_)
Concatenated(k) ==
  IF k = 0 THEN <<>> ELSE Concatenated(k - 1) \o Contribution(k, received[k])

\* C30: a multi-chunk historical fetch issues exactly one request per chunk
\* for a given query, in ascending chunk order, and never the request for
\* chunk i+1 before the response for chunk i has been received; on success
\* the rows returned are the per-chunk results concatenated in that order.
ChunksFetchedInOrder ==
  ChunkedFetch =>
    /\ \A i \in 1..Len(requestLog) : InChunkOrder(i)
    /\ Len(requestLog) <= Len(received) + 1
    /\ apiState = "awaiting" => Len(requestLog) = Len(received) + 1
    /\ apiState = "returned" =>
         /\ Len(requestLog) = NumQueries * Len(chunks)
         /\ Len(received) = Len(requestLog)
         /\ returned.rows = Concatenated(Len(received))

\* C30 witness: a fetch over two chunks or more and two series returned rows
\* of two responses or more
ChunksFetchedInOrderWitness ==
  /\ ChunkedFetch /\ apiState = "returned"
  /\ endpoint = PerSeriesEndpoint
  /\ Len(opts.series) = 2 /\ Len(chunks) >= 2
  /\ Cardinality({k \in 1..Len(received) : received[k] > 0}) >= 2
  /\ returned.rows = Concatenated(Len(received))

====
